---------------------------- MODULE Spec2Model ----------------------------
(***************************************************************************)
(* d9s: a terminal dashboard for a pipeline orchestration service.         *)
(*                                                                         *)
(* The model covers the view navigation state machine (src/app.rs), the    *)
(* per-view restore_state and poll logic (src/views/*.rs), the search      *)
(* overlay (src/app.rs, src/search.rs), the foreground input loop          *)
(* (src/main.rs, src/input.rs) and the background poller                   *)
(* (App::start_polling), which share the App behind one tokio Mutex.       *)
(*                                                                         *)
(* Text is modelled with TLA+ strings; TLC evaluates Len, \o, Head, Tail   *)
(* and SubSeq on them, so rows are formatted, matched and parsed character *)
(* by character as the code does.  An Option<T> is a sequence of length    *)
(* 0 (None) or 1 (Some).                                                   *)
(***************************************************************************)
EXTENDS Integers, Sequences, FiniteSets, TLC

VARIABLES
    app,    \* the App behind Arc<Mutex<App>> (src/app.rs:16-42), AppState inlined as app.state
    lock,   \* holder of the tokio Mutex around App: "none", "fg" or "bg"
    fg,     \* the foreground loop run_app (src/main.rs:84-136): its position and locals
    bg,     \* the background task App::start_polling (src/app.rs:305-322): position and locals
    last    \* history variable: the operation the foreground loop completed last

vars == <<app, lock, fg, bg, last>>

(***************************************************************************)
(* Bounds of the model.                                                    *)
(***************************************************************************)
MaxQueryLen == 1    \* longest search query typed into the filter overlay
MaxScroll == 1      \* largest scroll offset reached in the run detail view
MaxHist == 2        \* deepest history built by direct enter_view calls (NavSpec)
MaxHaystackLen == 3 \* longest row handed to fuzzy_match on its own (FuzzySpec)
MaxNeedleLen == 2   \* longest query handed to fuzzy_match on its own (FuzzySpec)
MaxAreaWidth == 200 \* widest area the run table is drawn in (WidthSpec)
MaxRows == 6        \* most data rows of the list the selection moves in (SelectSpec)
MaxViewportHeight == 5 \* tallest viewport the selection moves in (SelectSpec)

(***************************************************************************)
(* Strings.                                                                *)
(***************************************************************************)
None == << >>
Some(x) == << x >>
IsSome(o) == Len(o) = 1
Unwrap(o) == o[1]

Min(x, y) == IF x <= y THEN x ELSE y
Max(x, y) == IF x >= y THEN x ELSE y
SatSub(x, y) == IF x >= y THEN x - y ELSE 0

IsSpace(c) == c = " "

\* char::to_lowercase for the ASCII letters
LowerChar(c) ==
    CASE c = "A" -> "a" [] c = "B" -> "b" [] c = "C" -> "c" [] c = "D" -> "d"
      [] c = "E" -> "e" [] c = "F" -> "f" [] c = "G" -> "g" [] c = "H" -> "h"
      [] c = "I" -> "i" [] c = "J" -> "j" [] c = "K" -> "k" [] c = "L" -> "l"
      [] c = "M" -> "m" [] c = "N" -> "n" [] c = "O" -> "o" [] c = "P" -> "p"
      [] c = "Q" -> "q" [] c = "R" -> "r" [] c = "S" -> "s" [] c = "T" -> "t"
      [] c = "U" -> "u" [] c = "V" -> "v" [] c = "W" -> "w" [] c = "X" -> "x"
      [] c = "Y" -> "y" [] c = "Z" -> "z" [] OTHER -> c

\* the 1-based positions of the characters of s that satisfy / do not satisfy c = ch
PositionsOf(s, ch) == { i \in 1..Len(s) : SubSeq(s, i, i) = ch }
PositionsNot(s, ch) == { i \in 1..Len(s) : SubSeq(s, i, i) # ch }
MinOf(S) == CHOOSE i \in S : \A j \in S : i <= j
MaxOf(S) == CHOOSE i \in S : \A j \in S : i >= j

RECURSIVE to_lowercase(_)
\* str::to_lowercase, character by character (halving keeps the evaluation shallow)
to_lowercase(s) ==
    IF Len(s) = 0 THEN ""
    ELSE IF Len(s) = 1 THEN LowerChar(s)
    ELSE LET mid == Len(s) \div 2
         IN  to_lowercase(SubSeq(s, 1, mid)) \o to_lowercase(SubSeq(s, mid + 1, Len(s)))

\* The loop of fuzzy_match over the lower-cased texts: for the next needle
\* character, skip haystack characters until one matches and consume it.
RECURSIVE fuzzy_scan(_, _)
fuzzy_scan(haystack, needle) ==
    IF Len(needle) = 0 THEN TRUE
    ELSE LET hits == PositionsOf(haystack, Head(needle))
         IN  IF hits = {} THEN FALSE
             ELSE fuzzy_scan(SubSeq(haystack, MinOf(hits) + 1, Len(haystack)),
                             Tail(needle))

\* fuzzy_match without the two to_lowercase calls
fuzzy_match_case_sensitive(haystack, needle) ==
    IF Len(needle) = 0 THEN TRUE
    ELSE fuzzy_scan(haystack, needle)

fuzzy_match(haystack, needle) ==
    IF Len(needle) = 0 THEN TRUE
    ELSE fuzzy_scan(to_lowercase(haystack), to_lowercase(needle))

RECURSIVE Repeat(_, _)
\* str::repeat
Repeat(c, n) ==
    IF n <= 0 THEN ""
    ELSE IF n = 1 THEN c
    ELSE Repeat(c, n \div 2) \o Repeat(c, n - (n \div 2))

\* format!("{:<width$}", s)
PadRight(s, width) == s \o Repeat(" ", width - Len(s))

\* utils::truncate
truncate(s, max_width) ==
    IF Len(s) <= max_width THEN s
    ELSE SubSeq(s, 1, max_width - 3) \o "..."

\* str::trim_start
TrimStart(s) ==
    LET keep == PositionsNot(s, " ")
    IN  IF keep = {} THEN "" ELSE SubSeq(s, MinOf(keep), Len(s))

\* str::trim_end
TrimEnd(s) ==
    LET keep == PositionsNot(s, " ")
    IN  IF keep = {} THEN "" ELSE SubSeq(s, 1, MaxOf(keep))

\* str::trim
Trim(s) == TrimEnd(TrimStart(s))

\* chars().take(n).collect()
Take(s, n) == SubSeq(s, 1, Min(n, Len(s)))

\* the text up to the first space
UntilSpace(s) ==
    LET spaces == PositionsOf(s, " ")
    IN  IF spaces = {} THEN s ELSE SubSeq(s, 1, MinOf(spaces) - 1)

\* split_whitespace().next().unwrap_or_default()
FirstToken(s) == UntilSpace(TrimStart(s))

\* row.join(" ")
RECURSIVE Join(_)
Join(fields) ==
    IF Len(fields) = 0 THEN ""
    ELSE IF Len(fields) = 1 THEN fields[1]
    ELSE fields[1] \o " " \o Join(Tail(fields))

\* a get that answers an index past the end with the last element
Get_clamped(v, i) ==
    IF v = << >> THEN None ELSE Some(v[Min(i, Len(v) - 1) + 1])

\* Vec::get with a 0-based index
Get(v, i) == IF i < Len(v) THEN Some(v[i + 1]) ELSE None

(***************************************************************************)
(* Views (src/views/mod.rs:20-28).  Equality is structural: tag + payload. *)
(***************************************************************************)
DefaultView == [t |-> "Default", p |-> ""]
RunsV == [t |-> "Runs", p |-> ""]
ContextsV == [t |-> "Contexts", p |-> ""]
PipelinesV == [t |-> "Pipelines", p |-> ""]
RunV(run_id) == [t |-> "Run", p |-> run_id]
PipelineRunsV(name) == [t |-> "PipelineRuns", p |-> name]

IsRunsLike(view) == view.t \in {"Runs", "PipelineRuns"}
IsListView(view) == view.t \in {"Runs", "PipelineRuns", "Pipelines", "Contexts"}

(***************************************************************************)
(* The remote service: what the collaborators get_runs, get_run and        *)
(* get_pipelines may answer.  Runs carry no start or end time, so the      *)
(* clock-dependent format_timestamp is not exercised.                      *)
(***************************************************************************)
Run1 == [run_id |-> "r1", job_name |-> "etl", status |-> "SUCCESS",
         start_time |-> None, end_time |-> None]
Run2 == [run_id |-> "r2", job_name |-> "ml", status |-> "FAILURE",
         start_time |-> None, end_time |-> None]
AllRuns == {Run1, Run2}

Pipe1 == [name |-> "etl", is_asset_job |-> FALSE, repository_location |-> "loc",
          last_run_status |-> Some("SUCCESS")]
Pipe2 == [name |-> "ml", is_asset_job |-> FALSE, repository_location |-> "loc",
          last_run_status |-> None]

\* the run lists the service may hold
RunLists == { << >>, << Run1 >>, << Run2, Run1 >> }

\* the runs of a list that belong to a pipeline ("" = no filter)
RECURSIVE OfPipeline(_, _)
OfPipeline(runs, pipeline_name) ==
    IF Len(runs) = 0 THEN << >>
    ELSE IF pipeline_name = "" \/ Head(runs).job_name = pipeline_name
         THEN << Head(runs) >> \o OfPipeline(Tail(runs), pipeline_name)
         ELSE OfPipeline(Tail(runs), pipeline_name)

Ok(v) == [ok |-> TRUE, val |-> v, msg |-> ""]
Err(m) == [ok |-> FALSE, val |-> << >>, msg |-> m]

\* get_runs(variables, url, limit): a transport error, or the runs of the pipeline
RunsResponses(pipeline_name) ==
    { Err("net") } \cup { Ok(OfPipeline(l, pipeline_name)) : l \in RunLists }

\* get_pipelines(url)
PipelinesResponses == { Err("net"), Ok(<< Pipe1 >>), Ok(<< Pipe1, Pipe2 >>) }

\* get_run(run_id, url) as fetch_details and RunPoller::poll read it: the run,
\* or an error (transport, RunNotFoundError, PythonError)
RunResponses(run_id) ==
    { Err("net") } \cup { Ok(<< r >>) : r \in { x \in AllRuns : x.run_id = run_id } }

(***************************************************************************)
(* Rows.                                                                   *)
(***************************************************************************)
\* utils::format_duration
format_duration(start, end) ==
    IF IsSome(start) /\ ~IsSome(end) THEN "Running" ELSE "-"

\* utils::format_timestamp (None only)
format_timestamp(start) == "-"

RunRow(r) ==
    Join(<< r.run_id, r.job_name, r.status,
            format_duration(r.start_time, r.end_time), format_timestamp(r.start_time) >>)

RECURSIVE RunRows(_)
RunRows(runs) ==
    IF Len(runs) = 0 THEN << >> ELSE << RunRow(Head(runs)) >> \o RunRows(Tail(runs))

\* RunsView::populate_runs_items_into: the rows of state.runs under header and separator
populate_runs_items_into(a) == << "HEADER", "SEPARATOR" >> \o RunRows(a.state.runs)

PipelinesHeader ==
    PadRight("PIPELINE NAME", 53) \o PadRight("REPOSITORY LOCATION", 37) \o "LAST RUN STATUS"

PipelineRow(p) ==
    LET status == IF IsSome(p.last_run_status) THEN Unwrap(p.last_run_status) ELSE "None"
    IN  Join(<< PadRight(truncate(p.name, 50), 50),
                PadRight(truncate(p.repository_location, 33), 33),
                status >>)

RECURSIVE PipelineRows(_)
PipelineRows(ps) ==
    IF Len(ps) = 0 THEN << >>
    ELSE IF Head(ps).is_asset_job THEN PipelineRows(Tail(ps))
    ELSE << PipelineRow(Head(ps)) >> \o PipelineRows(Tail(ps))

\* PipelinesView::populate_pipelines_items_into
populate_pipelines_items_into(a) ==
    << PipelinesHeader, Repeat("-", 80) >> \o PipelineRows(a.state.pipelines)

\* DefaultView::populate_help_text
HelpText ==
    << "Welcome to d9s!", "", "Available commands:",
       "  :runs - Show all pipeline runs",
       "  :pipelines - Show available pipelines",
       "  :contexts - Manage connection contexts",
       "  :url <url> - Set Dagster GraphQL URL",
       "  :context <name> - Switch to a different context",
       "  :debug - Log application debug information",
       "  :q - Quit application", "", "Navigation:",
       "  Press 'q' to quit", "  Press ':' to enter command mode",
       "  Press 'Esc' to go back" >>

\* App::populate_contexts_list over Config::default(): the one context "default"
ContextsItems ==
    << "CONTEXT NAME     URL                                      RUNS LIMIT",
       Repeat("-", 80),
       Join(<< "* " \o PadRight("default", 15),
               PadRight("http://localhost:3000/graphql", 40),
               PadRight("20", 10) >>) >>

(***************************************************************************)
(* ConnectionStatus (src/app.rs:54-59).                                    *)
(***************************************************************************)
Connected == [t |-> "Connected", msg |-> ""]
Disconnected == [t |-> "Disconnected", msg |-> ""]
Failed(m) == [t |-> "Failed", msg |-> m]

(***************************************************************************)
(* App::new (src/app.rs:210-246) with AppState::default.  command_input    *)
(* and dagster_url are not part of the state: the command line executed    *)
(* is drawn when Enter is pressed, and no modelled step reads the url.     *)
(***************************************************************************)
EmptyCache == [v \in {} |-> << 0, 0 >>]

AppNew ==
    [ view |-> DefaultView,
      view_history |-> << >>,
      next_view |-> None,
      view_state_cache |-> EmptyCache,
      run_view |-> None,
      selected_index |-> 0,
      list_offset |-> 0,
      items |-> HelpText,
      unfiltered_items |-> << >>,
      command_mode |-> FALSE,
      search_mode |-> FALSE,
      search_input |-> "",
      has_committed_filter |-> FALSE,
      connection_status |-> Disconnected,
      state |-> [runs |-> << >>, pipelines |-> << >>, selected_pipeline |-> None] ]

\* RunView::new
RunViewNew(run_id) ==
    [run_id |-> run_id, details |-> None, scroll_offset |-> 0, horizontal_scroll |-> 0]

(***************************************************************************)
(* View state cache and history (src/app.rs:482-527).                      *)
(***************************************************************************)
CachePut(cache, key, val) ==
    [k \in DOMAIN cache \cup {key} |-> IF k = key THEN val ELSE cache[k]]

\* save_view_state without the test of the view
save_view_state_of_any_view(a) ==
    [a EXCEPT !.view_state_cache =
                  CachePut(@, a.view, << a.selected_index, a.list_offset >>)]

save_view_state(a) ==
    IF a.view.t # "Default" /\ a.view.t # "Run"
    THEN [a EXCEPT !.view_state_cache =
                       CachePut(@, a.view, << a.selected_index, a.list_offset >>)]
    ELSE a

restore_view_state(a) ==
    IF a.view \in DOMAIN a.view_state_cache
    THEN [a EXCEPT !.selected_index = a.view_state_cache[a.view][1],
                   !.list_offset = a.view_state_cache[a.view][2]]
    ELSE a

\* update_view_history pushing the view entered instead of the view left
update_view_history_pushes_target(a, view_type, reset_history) ==
    IF reset_history
    THEN [a EXCEPT !.view_history =
                       IF view_type.t # "Default" THEN << DefaultView >> ELSE << >>]
    ELSE [a EXCEPT !.view_history = Append(@, view_type)]

\* update_view_history without the clear() of the reset branch
update_view_history_keeps(a, view_type, reset_history) ==
    IF reset_history
    THEN [a EXCEPT !.view_history =
                       IF view_type.t # "Default" THEN Append(@, DefaultView) ELSE @]
    ELSE [a EXCEPT !.view_history = Append(@, a.view)]

update_view_history(a, view_type, reset_history) ==
    IF reset_history
    THEN [a EXCEPT !.view_history =
                       IF view_type.t # "Default" THEN << DefaultView >> ELSE << >>]
    ELSE [a EXCEPT !.view_history = Append(@, a.view)]

(***************************************************************************)
(* Search and filtering (src/app.rs:615-703).                              *)
(***************************************************************************)
\* the rows from index from on, whether they match the query or not
FilterRows_keeps_all(rows, from, query) == SubSeq(rows, from, Len(rows))

RECURSIVE FilterRows(_, _, _)
\* .iter().skip(2).filter(|item| fuzzy_match(item, &search_input)): from is 1-based
FilterRows(rows, from, query) ==
    IF from > Len(rows) THEN << >>
    ELSE IF fuzzy_match(rows[from], query)
         THEN << rows[from] >> \o FilterRows(rows, from + 1, query)
         ELSE FilterRows(rows, from + 1, query)

UnwrapOrDefault(o) == IF IsSome(o) THEN Unwrap(o) ELSE ""

apply_search_filter(a) ==
    IF a.search_input = ""
    THEN [a EXCEPT !.items = a.unfiltered_items]
    ELSE LET header == UnwrapOrDefault(Get(a.unfiltered_items, 0))
             separator == UnwrapOrDefault(Get(a.unfiltered_items, 1))
             items == << header, separator >>
                          \o FilterRows(a.unfiltered_items, 3, a.search_input)
         IN  IF a.selected_index < 2 \/ a.selected_index >= Len(items)
             THEN [a EXCEPT !.items = items,
                            !.selected_index = Min(2, SatSub(Len(items), 1)),
                            !.list_offset = 0]
             ELSE [a EXCEPT !.items = items]

enter_search_mode(a) ==
    [a EXCEPT !.search_mode = TRUE, !.search_input = "",
              !.unfiltered_items = a.items, !.command_mode = FALSE]

update_search(a, c) == apply_search_filter([a EXCEPT !.search_input = @ \o c])

clear_search_input(a) ==
    IF a.search_input # ""
    THEN apply_search_filter(
             [a EXCEPT !.search_input = SubSeq(@, 1, Len(@) - 1)])
    ELSE [a EXCEPT !.search_mode = FALSE]

commit_search(a) == [a EXCEPT !.search_mode = FALSE, !.has_committed_filter = TRUE]

\* leaves the filtered rows in items
cancel_search_keeps_items(a) ==
    [a EXCEPT !.search_mode = FALSE, !.search_input = "",
              !.has_committed_filter = FALSE]

cancel_search(a) ==
    LET a1 == [a EXCEPT !.search_mode = FALSE, !.search_input = "",
                        !.has_committed_filter = FALSE]
    IN  IF a.unfiltered_items # << >>
        THEN [a1 EXCEPT !.items = a.unfiltered_items]
        ELSE a1

(***************************************************************************)
(* Selection and scrolling (src/app.rs:534-608).                           *)
(***************************************************************************)
\* next_item that never scrolls
next_item_never_scrolls(a, viewport_height) ==
    IF Len(a.items) <= 2 THEN a
    ELSE [a EXCEPT !.selected_index = Min(a.selected_index + 1, Len(a.items) - 1)]

next_item(a, viewport_height) ==
    IF Len(a.items) <= 2 THEN a
    ELSE LET max_index == Len(a.items) - 1
             next_index == Min(a.selected_index + 1, max_index)
             last_visible == a.list_offset + viewport_height - 1
         IN  IF next_index # a.selected_index
             THEN [a EXCEPT !.list_offset =
                                IF next_index >= last_visible THEN @ + 1 ELSE @,
                            !.selected_index = next_index]
             ELSE a

previous_item(a, viewport_height) ==
    IF Len(a.items) <= 2 THEN a
    ELSE LET prev_index == Max(SatSub(Max(a.selected_index, 2), 1), 2)
         IN  IF prev_index # a.selected_index
             THEN [a EXCEPT !.selected_index = prev_index,
                            !.list_offset =
                                IF prev_index < a.list_offset THEN SatSub(@, 1) ELSE @]
             ELSE a

InRunView(a) == a.view.t = "Run" /\ IsSome(a.run_view)

scroll_down(a) ==
    IF InRunView(a) THEN [a EXCEPT !.run_view[1].scroll_offset = @ + 1] ELSE a

scroll_up(a) ==
    IF InRunView(a) THEN [a EXCEPT !.run_view[1].scroll_offset = SatSub(@, 1)] ELSE a

scroll_left(a) ==
    IF InRunView(a) THEN [a EXCEPT !.run_view[1].horizontal_scroll = SatSub(@, 1)] ELSE a

scroll_right(a) ==
    IF InRunView(a) THEN [a EXCEPT !.run_view[1].horizontal_scroll = @ + 1] ELSE a

(***************************************************************************)
(* restore_state of each view.  A data-backed view shows a loading row,    *)
(* restores the cursor and then awaits its fetch; the part before the      *)
(* await and the part after it are separate definitions.                   *)
(***************************************************************************)
\* "If no previous state, set defaults" (runs_view.rs:388-391, pipelines_view.rs:295-298,
\* contexts_view.rs:113-116)
default_cursor(a) ==
    IF a.selected_index < 2
    THEN [a EXCEPT !.selected_index = 2, !.list_offset = 0]
    ELSE a

DefaultView_restore_state(a) ==
    [a EXCEPT !.items = HelpText, !.selected_index = 0, !.list_offset = 0]

populate_contexts_list(a) ==
    [a EXCEPT !.items = ContextsItems, !.selected_index = 2, !.list_offset = 0]

ContextsView_restore_state(a) ==
    default_cursor(restore_view_state(populate_contexts_list(a)))

RunsLoading == << "HEADER", "SEPARATOR", "Loading runs..." >>
PipelinesLoading == << PipelinesHeader, Repeat("-", 80), "Loading pipelines..." >>

RunsView_restore_state_loading(a) ==
    default_cursor(restore_view_state([a EXCEPT !.items = RunsLoading]))

PipelinesView_restore_state_loading(a) ==
    default_cursor(restore_view_state([a EXCEPT !.items = PipelinesLoading]))

\* RunsView::fetch_initial_data once get_runs has answered
RunsView_fetch_initial_data(a, resp) ==
    IF resp.ok
    THEN LET a1 == [a EXCEPT !.state.runs = resp.val]
         IN  [a1 EXCEPT !.items = populate_runs_items_into(a1)]
    ELSE a

\* PipelinesView::fetch_initial_data once get_pipelines has answered
PipelinesView_fetch_initial_data(a, resp) ==
    IF resp.ok
    THEN LET a1 == [a EXCEPT !.state.pipelines = resp.val]
         IN  [a1 EXCEPT !.items = populate_pipelines_items_into(a1)]
    ELSE a

\* the pipeline filter RunsView::fetch_runs and RunsView::poll send
runs_pipeline_name(a) ==
    IF a.view.t = "PipelineRuns" THEN a.view.p
    ELSE UnwrapOrDefault(a.state.selected_pipeline)

\* whether restore_state of the view awaits a network fetch
AwaitsFetch(view) == view.t \in {"Runs", "PipelineRuns", "Pipelines"}

\* the match on self.view in enter_view and navigate_back, up to the await
restore_state_sync(a) ==
    CASE a.view.t = "Default" -> DefaultView_restore_state(a)
      [] a.view.t = "Contexts" -> ContextsView_restore_state(a)
      [] a.view.t \in {"Runs", "PipelineRuns"} -> RunsView_restore_state_loading(a)
      [] a.view.t = "Pipelines" -> PipelinesView_restore_state_loading(a)
      [] OTHER -> a

\* restore_state that falls back to the Default view when its fetch fails
restore_state_resume_reverts(a, resp) ==
    IF ~resp.ok
    THEN [a EXCEPT !.view = DefaultView, !.items = HelpText,
                   !.selected_index = 0, !.list_offset = 0]
    ELSE IF a.view.t = "Pipelines"
    THEN PipelinesView_fetch_initial_data(a, resp)
    ELSE RunsView_fetch_initial_data(a, resp)

\* ... and from the await on
restore_state_resume(a, resp) ==
    IF a.view.t = "Pipelines"
    THEN PipelinesView_fetch_initial_data(a, resp)
    ELSE RunsView_fetch_initial_data(a, resp)

\* the responses the fetch of restore_state may get
RestoreResponses(a) ==
    IF a.view.t = "Pipelines" THEN PipelinesResponses
    ELSE RunsResponses(runs_pipeline_name(a))

(***************************************************************************)
(* enter_view and navigate_back (src/app.rs:341-479).                      *)
(***************************************************************************)
clear_search(a) ==
    [a EXCEPT !.search_mode = FALSE, !.search_input = "",
              !.has_committed_filter = FALSE, !.unfiltered_items = << >>]

\* enter_view setting self.view before the cursor is saved and the history updated
enter_view_switch_sets_view_first(a, view_type, reset_history) ==
    LET a0 == IF view_type.t = "Runs"
              THEN [a EXCEPT !.state.selected_pipeline = None] ELSE a
        a1 == clear_search(save_view_state([a0 EXCEPT !.view = view_type]))
    IN  update_view_history(a1, view_type, reset_history)

\* enter_view when view_type is not the current view, up to self.view = view_type
enter_view_switch(a, view_type, reset_history) ==
    LET a0 == IF view_type.t = "Runs"
              THEN [a EXCEPT !.state.selected_pipeline = None] ELSE a
        a1 == clear_search(save_view_state(a0))
        a2 == update_view_history(a1, view_type, reset_history)
    IN  [a2 EXCEPT !.view = view_type]

\* enter_view without the early return of app.rs:347-349
enter_view_sync_always(a, view_type, reset_history) ==
    restore_state_sync(enter_view_switch(a, view_type, reset_history))

\* enter_view up to the await of restore_state
enter_view_sync(a, view_type, reset_history) ==
    IF a.view = view_type THEN a
    ELSE restore_state_sync(enter_view_switch(a, view_type, reset_history))

\* whether enter_view(view_type, _) reaches an await
enter_view_awaits(a, view_type) == a.view # view_type /\ AwaitsFetch(view_type)

\* whether navigate_back changes the view
can_navigate_back(a) == Len(a.view_history) > 0 \/ a.view.t # "Default"

\* navigate_back up to the await of restore_state
navigate_back_sync(a) ==
    LET a1 == save_view_state(a)
        n == Len(a1.view_history)
    IN  IF n > 0
        THEN restore_state_sync([a1 EXCEPT !.view = a1.view_history[n],
                                           !.view_history = SubSeq(@, 1, n - 1)])
        ELSE IF a1.view.t # "Default"
        THEN DefaultView_restore_state([a1 EXCEPT !.view = DefaultView])
        ELSE a1

(***************************************************************************)
(* Drill-downs (src/app.rs:896-966) and contexts (src/app.rs:969-996).     *)
(***************************************************************************)
\* enter_run_details_view reaches fetch_details
run_details_guard(a) ==
    IsRunsLike(a.view) /\ a.selected_index >= 2 /\ IsSome(Get(a.items, a.selected_index))

selected_run_id(a) == FirstToken(Unwrap(Get(a.items, a.selected_index)))

\* enter_run_details_view once fetch_details has answered
enter_run_details_view_resume(a, run_id, resp) ==
    LET rv == IF resp.ok
              THEN [RunViewNew(run_id) EXCEPT !.details = Some(resp.val[1])]
              ELSE RunViewNew(run_id)
        a1 == [a EXCEPT !.connection_status =
                            IF resp.ok THEN Connected ELSE Failed(resp.msg),
                        !.run_view = Some(rv)]
    IN  enter_view_sync(a1, RunV(run_id), FALSE)

pipeline_runs_guard(a) ==
    a.view.t = "Pipelines" /\ a.selected_index >= 2
        /\ IsSome(Get(a.items, a.selected_index))

selected_pipeline_name(a) ==
    Trim(Take(Trim(Unwrap(Get(a.items, a.selected_index))), 30))

\* enter_pipeline_runs_view without the store of selected_pipeline
enter_pipeline_runs_view_sync_keeps_filter(a) ==
    enter_view_sync(save_view_state(a), PipelineRunsV(selected_pipeline_name(a)), FALSE)

\* enter_pipeline_runs_view up to the await inside enter_view
enter_pipeline_runs_view_sync(a) ==
    LET name == selected_pipeline_name(a)
        a1 == [save_view_state(a) EXCEPT !.state.selected_pipeline = Some(name)]
    IN  enter_view_sync(a1, PipelineRunsV(name), FALSE)

\* Config::set_context over the contexts of Config::default()
set_context_ok(name) == name = "default"

\* trim_start_matches('*')
TrimStartStar(s) ==
    LET keep == PositionsNot(s, "*")
    IN  IF keep = {} THEN "" ELSE SubSeq(s, MinOf(keep), Len(s))

\* switch_context with an empty context_name: the name is read from the selected row
switch_context(a) ==
    IF a.view.t # "Contexts" \/ ~IsSome(Get(a.items, a.selected_index)) THEN a
    ELSE LET item == Unwrap(Get(a.items, a.selected_index))
             first == FirstToken(Trim(item))
             name == Trim(TrimStartStar(first))
         IN  IF first = "" THEN a
             ELSE IF ~set_context_ok(name)
             THEN [a EXCEPT !.connection_status =
                      Failed("Context error: Context '" \o name \o "' not found")]
             ELSE populate_contexts_list(
                      [a EXCEPT !.connection_status = Disconnected])

toggle_command_mode(a) ==
    IF ~a.command_mode
    THEN [a EXCEPT !.command_mode = TRUE, !.search_mode = FALSE]
    ELSE [a EXCEPT !.command_mode = FALSE]

(***************************************************************************)
(* Poll merges: what each ViewPoller::poll does under the lock once its    *)
(* fetch has answered.                                                     *)
(***************************************************************************)
\* has_filter of runs_view.rs:222 without the committed flag
RunsView_has_filter_live_only(a) == a.search_mode

\* runs_view.rs:222
RunsView_has_filter(a) == a.search_mode \/ a.has_committed_filter

\* RunsView::poll's merge with the view re-check of runs_view.rs:213-217 and 252-256
\* left out
RunsView_poll_merge_unguarded(a, resp) ==
    IF resp.ok
    THEN IF resp.val # << >>
         THEN LET a1 == [a EXCEPT !.connection_status = Connected,
                                  !.state.runs = resp.val]
              IN  IF RunsView_has_filter(a)
                  THEN apply_search_filter(
                           [a1 EXCEPT !.unfiltered_items = populate_runs_items_into(a1)])
                  ELSE [a1 EXCEPT !.items = populate_runs_items_into(a1)]
         ELSE a
    ELSE [a EXCEPT !.connection_status = Failed(resp.msg)]

\* RunsView::poll's merge with an error branch that falls back to the loading rows
RunsView_poll_merge_drops_on_error(a, resp) ==
    IF resp.ok
    THEN IF resp.val # << >>
         THEN IF ~IsRunsLike(a.view) THEN a
              ELSE LET a1 == [a EXCEPT !.connection_status = Connected,
                                       !.state.runs = resp.val]
                   IN  IF RunsView_has_filter(a)
                       THEN apply_search_filter(
                                [a1 EXCEPT !.unfiltered_items = populate_runs_items_into(a1)])
                       ELSE [a1 EXCEPT !.items = populate_runs_items_into(a1)]
         ELSE a
    ELSE IF IsRunsLike(a.view)
         THEN [a EXCEPT !.connection_status = Failed(resp.msg),
                        !.state.runs = << >>,
                        !.items = << "HEADER", "SEPARATOR", "Loading runs..." >>]
         ELSE a

\* RunsView::poll's merge without the runs.is_empty() test
RunsView_poll_merge_merges_empty(a, resp) ==
    IF resp.ok
    THEN IF ~IsRunsLike(a.view) THEN a
         ELSE LET a1 == [a EXCEPT !.connection_status = Connected,
                                  !.state.runs = resp.val]
              IN  IF RunsView_has_filter(a)
                  THEN apply_search_filter(
                           [a1 EXCEPT !.unfiltered_items = populate_runs_items_into(a1)])
                  ELSE [a1 EXCEPT !.items = populate_runs_items_into(a1)]
    ELSE IF IsRunsLike(a.view)
         THEN [a EXCEPT !.connection_status = Failed(resp.msg)]
         ELSE a

\* runs_view.rs:191-259
RunsView_poll_merge(a, resp) ==
    IF resp.ok
    THEN IF resp.val # << >>
         THEN IF ~IsRunsLike(a.view) THEN a
              ELSE LET a1 == [a EXCEPT !.connection_status = Connected,
                                       !.state.runs = resp.val]
                   IN  IF RunsView_has_filter(a)
                       THEN apply_search_filter(
                                [a1 EXCEPT !.unfiltered_items = populate_runs_items_into(a1)])
                       ELSE [a1 EXCEPT !.items = populate_runs_items_into(a1)]
         ELSE a
    ELSE IF IsRunsLike(a.view)
         THEN [a EXCEPT !.connection_status = Failed(resp.msg)]
         ELSE a

\* pipelines_view.rs:167-168
PipelinesView_has_filter(a) ==
    a.unfiltered_items # << >> /\ a.unfiltered_items # a.items

\* pipelines_view.rs:155-201
PipelinesView_poll_merge(a, resp) ==
    IF resp.ok
    THEN IF a.view.t # "Pipelines" THEN a
         ELSE LET a1 == [a EXCEPT !.connection_status = Connected,
                                  !.state.pipelines = resp.val]
              IN  IF PipelinesView_has_filter(a)
                  THEN apply_search_filter(
                           [a1 EXCEPT !.unfiltered_items =
                                          populate_pipelines_items_into(a1)])
                  ELSE [a1 EXCEPT !.items = populate_pipelines_items_into(a1)]
    ELSE IF a.view.t = "Pipelines"
         THEN [a EXCEPT !.connection_status = Failed(resp.msg)]
         ELSE a

\* run_view.rs:93-124
RunPoller_poll_merge(a, resp) ==
    IF resp.ok
    THEN LET a1 == IF IsSome(a.run_view)
                   THEN [a EXCEPT !.run_view[1].details = Some(resp.val[1])]
                   ELSE a
         IN  [a1 EXCEPT !.connection_status = Connected]
    ELSE [a EXCEPT !.connection_status = Failed(resp.msg)]

\* get_poller with no poller for the Run view
get_poller_without_run(view) ==
    CASE view.t \in {"Runs", "PipelineRuns"} -> "RunsView"
      [] view.t = "Pipelines" -> "PipelinesView"
      [] view.t = "Contexts" -> "ContextsView"
      [] OTHER -> "DefaultView"

\* App::get_poller
get_poller(view) ==
    CASE view.t \in {"Runs", "PipelineRuns"} -> "RunsView"
      [] view.t = "Default" -> "DefaultView"
      [] view.t = "Run" -> "RunPoller"
      [] view.t = "Contexts" -> "ContextsView"
      [] view.t = "Pipelines" -> "PipelinesView"

\* the first critical section of each poll: should_poll
should_poll(poller, a) ==
    CASE poller = "RunsView" -> IsRunsLike(a.view)
      [] poller = "PipelinesView" -> a.view.t = "Pipelines"
      [] poller = "RunPoller" -> a.view.t = "Run"
      [] OTHER -> FALSE

poll_merge(poller, a, resp) ==
    CASE poller = "RunsView" -> RunsView_poll_merge(a, resp)
      [] poller = "PipelinesView" -> PipelinesView_poll_merge(a, resp)
      [] OTHER -> RunPoller_poll_merge(a, resp)

(***************************************************************************)
(* Keys (src/input.rs).                                                    *)
(***************************************************************************)
Key(code) == [code |-> code, c |-> ""]
Char(c) == [code |-> "Char", c |-> c]
Action(k) == [k |-> k, c |-> ""]

handle_run_view_key(key, selected_index) ==
    CASE key.code = "Down" -> Action("ScrollDown")
      [] key.code = "Up" -> Action("ScrollUp")
      [] key.code = "Left" -> Action("ScrollLeft")
      [] key.code = "Right" -> Action("ScrollRight")
      [] OTHER -> Action("Ignored")

handle_runs_view_key(key, selected_index) ==
    CASE key.code = "Down" -> Action("SelectNext")
      [] key.code = "Up" -> Action("SelectPrevious")
      [] key.code = "Enter" /\ selected_index >= 2 -> Action("ViewDetails")
      [] OTHER -> Action("Ignored")

handle_contexts_view_key(key, selected_index) ==
    CASE key.code = "Down" -> Action("SelectNext")
      [] key.code = "Up" -> Action("SelectPrevious")
      [] key.code = "Enter" /\ selected_index >= 2 -> Action("SwitchContext")
      [] OTHER -> Action("Ignored")

handle_pipelines_view_key(key, selected_index) ==
    CASE key.code = "Down" -> Action("SelectNext")
      [] key.code = "Up" -> Action("SelectPrevious")
      [] key.code = "Enter" /\ selected_index >= 2 -> Action("ViewPipelineRuns")
      [] OTHER -> Action("Ignored")

handle_key(key, view, command_mode, search_mode, selected_index) ==
    IF command_mode
    THEN CASE key.code = "Esc" -> Action("ToggleCommandMode")
           [] key.code = "Char" -> [k |-> "UpdateCommandInput", c |-> key.c]
           [] key.code = "Backspace" -> Action("ClearCommandInput")
           [] key.code = "Enter" -> Action("ExecuteCommand")
           [] OTHER -> Action("Ignored")
    ELSE IF search_mode
    THEN CASE key.code = "Esc" -> Action("CancelSearch")
           [] key.code = "Char" -> [k |-> "UpdateSearchInput", c |-> key.c]
           [] key.code = "Backspace" -> Action("ClearSearchInput")
           [] key.code = "Enter" -> Action("CommitSearch")
           [] OTHER -> Action("Ignored")
    ELSE CASE key = Char(":") -> Action("ToggleCommandMode")
           [] key = Char("/") ->
                  IF view.t \in {"Runs", "PipelineRuns", "Pipelines"}
                  THEN Action("ToggleSearchMode") ELSE Action("Ignored")
           [] key.code = "Esc" -> Action("NavigateBack")
           [] OTHER ->
                  CASE view.t = "Run" -> handle_run_view_key(key, selected_index)
                    [] view.t \in {"Runs", "PipelineRuns"} ->
                           handle_runs_view_key(key, selected_index)
                    [] view.t = "Contexts" -> handle_contexts_view_key(key, selected_index)
                    [] view.t = "Pipelines" -> handle_pipelines_view_key(key, selected_index)
                    [] OTHER -> Action("Ignored")

(***************************************************************************)
(* The two tasks of src/main.rs around the one mutex-protected App.        *)
(*   lock  who holds Arc<Mutex<App>>: "none", "fg" or "bg"                 *)
(*   fg    the foreground loop run_app: idle, holding a computed action    *)
(*         (apply), or suspended in a fetch inside apply_key_action or     *)
(*         enter_view (fetch)                                              *)
(*   bg    App::start_polling: waiting for the tick, or inside poll        *)
(*   last  the operation the foreground loop started last                  *)
(***************************************************************************)
\* (terminal.size()?.height as usize).saturating_sub(3) for the terminals considered
ViewportHeights == {3}

FgIdle == [pc |-> "idle", action |-> Action("Ignored"), vh |-> 0, arg |-> ""]
BgTick == [pc |-> "tick", view |-> DefaultView, poller |-> "DefaultView", arg |-> ""]
\* an operation of the foreground: its kind, the target and reset_history of an
\* enter_view, whether the target was the current view, and what navigate_back returned
Op(k, view, reset, same, ret) ==
    [k |-> k, view |-> view, reset |-> reset, same |-> same, ret |-> ret]
NoOp == Op("None", DefaultView, FALSE, FALSE, "-")

Init ==
    /\ app = AppNew
    /\ lock = "none"
    /\ fg = FgIdle
    /\ bg = BgTick
    /\ last = NoOp

\* execute_standard_command entering its view without resetting the history
execute_standard_command_sync_keeps_history(a, cmd) ==
    CASE cmd = "contexts" -> enter_view_sync(a, ContextsV, FALSE)
      [] cmd = "runs" ->
             enter_view_sync([a EXCEPT !.state.selected_pipeline = None], RunsV, FALSE)
      [] cmd = "pipelines" -> enter_view_sync(a, PipelinesV, FALSE)
      [] OTHER -> a

\* execute_standard_command up to the await of restore_state
execute_standard_command_sync(a, cmd) ==
    CASE cmd = "contexts" -> enter_view_sync(a, ContextsV, TRUE)
      [] cmd = "runs" ->
             enter_view_sync([a EXCEPT !.state.selected_pipeline = None], RunsV, TRUE)
      [] cmd = "pipelines" -> enter_view_sync(a, PipelinesV, TRUE)
      [] OTHER -> a

CommandTarget(cmd) ==
    CASE cmd = "contexts" -> ContextsV
      [] cmd = "runs" -> RunsV
      [] cmd = "pipelines" -> PipelinesV
      [] OTHER -> DefaultView

\* whether execute_standard_command reaches an await
execute_standard_command_awaits(a, cmd) ==
    cmd \in {"runs", "pipelines"} /\ enter_view_awaits(a, CommandTarget(cmd))

\* execute_command from the return of execute_standard_command on
execute_command_finish(a) == [a EXCEPT !.command_mode = FALSE]

\* clear_command_input when the pop leaves command_input empty
clear_command_input_empty(a) == [a EXCEPT !.command_mode = FALSE]

\* the arms of apply_key_action that never await
apply_key_action_sync(a, action, viewport_height) ==
    CASE action.k = "ToggleCommandMode" -> toggle_command_mode(a)
      [] action.k = "ClearCommandInput" -> clear_command_input_empty(a)
      [] action.k = "ToggleSearchMode" -> enter_search_mode(a)
      [] action.k = "CommitSearch" -> commit_search(a)
      [] action.k = "CancelSearch" -> cancel_search(a)
      [] action.k = "UpdateSearchInput" -> update_search(a, action.c)
      [] action.k = "ClearSearchInput" -> clear_search_input(a)
      [] action.k = "SelectNext" -> next_item(a, viewport_height)
      [] action.k = "SelectPrevious" -> previous_item(a, viewport_height)
      [] action.k = "SwitchContext" -> switch_context(a)
      [] action.k = "ScrollDown" -> scroll_down(a)
      [] action.k = "ScrollUp" -> scroll_up(a)
      [] action.k = "ScrollLeft" -> scroll_left(a)
      [] action.k = "ScrollRight" -> scroll_right(a)
      [] OTHER -> a

AwaitingActions == {"ExecuteCommand", "NavigateBack", "ViewDetails", "ViewPipelineRuns"}

\* the keys whose effect the bounds cut off
WithinBounds(key) ==
    /\ (app.search_mode /\ ~app.command_mode /\ key.code = "Char")
           => Len(app.search_input) < MaxQueryLen
    /\ (InRunView(app) /\ key.code = "Down")
           => Unwrap(app.run_view).scroll_offset < MaxScroll
    /\ (InRunView(app) /\ key.code = "Right")
           => Unwrap(app.run_view).horizontal_scroll < MaxScroll

\* run_app, main.rs:103-118: a key arrives, the snapshot is read under the lock and
\* handle_key computes the action from it
FgKey(key, viewport_height) ==
    /\ fg.pc = "idle"
    /\ lock = "none"
    /\ app.next_view = None
    /\ WithinBounds(key)
    /\ LET action == handle_key(key, app.view, app.command_mode, app.search_mode,
                                app.selected_index)
       IN  /\ action.k \notin {"Ignored", "UpdateCommandInput"}
           /\ fg' = [pc |-> "apply", action |-> action, vh |-> viewport_height,
                     arg |-> ""]
    /\ UNCHANGED << app, lock, bg >>

\* run_app, main.rs:124-125: the lock is taken again and apply_key_action runs up to
\* its return or its first await
FgApplySync ==
    /\ fg.pc = "apply"
    /\ lock = "none"
    /\ fg.action.k \notin AwaitingActions
    /\ app' = apply_key_action_sync(app, fg.action, fg.vh)
    /\ fg' = FgIdle
    /\ UNCHANGED << lock, bg >>

FgApplyCommand(cmd) ==
    /\ fg.pc = "apply"
    /\ lock = "none"
    /\ fg.action.k = "ExecuteCommand"
    /\ IF execute_standard_command_awaits(app, cmd)
       THEN /\ app' = execute_standard_command_sync(app, cmd)
            /\ fg' = [fg EXCEPT !.pc = "fetch"]
            /\ lock' = "fg"
       ELSE /\ app' = execute_command_finish(execute_standard_command_sync(app, cmd))
            /\ fg' = FgIdle
            /\ lock' = lock
    /\ UNCHANGED bg

FgApplyNavigateBack ==
    /\ fg.pc = "apply"
    /\ lock = "none"
    /\ fg.action.k = "NavigateBack"
    /\ app' = navigate_back_sync(app)
    /\ IF AwaitsFetch(app'.view) /\ can_navigate_back(app)
       THEN fg' = [fg EXCEPT !.pc = "fetch"] /\ lock' = "fg"
       ELSE fg' = FgIdle /\ lock' = lock
    /\ UNCHANGED bg

FgApplyViewDetails ==
    /\ fg.pc = "apply"
    /\ lock = "none"
    /\ fg.action.k = "ViewDetails"
    /\ IF run_details_guard(app)
       THEN /\ app' = save_view_state(app)
            /\ fg' = [fg EXCEPT !.pc = "fetch", !.arg = selected_run_id(app)]
            /\ lock' = "fg"
       ELSE /\ app' = IF IsRunsLike(app.view) /\ app.selected_index >= 2
                      THEN save_view_state(app) ELSE app
            /\ fg' = FgIdle
            /\ lock' = lock
    /\ UNCHANGED bg

FgApplyViewPipelineRuns ==
    /\ fg.pc = "apply"
    /\ lock = "none"
    /\ fg.action.k = "ViewPipelineRuns"
    /\ IF pipeline_runs_guard(app)
       THEN /\ app' = enter_pipeline_runs_view_sync(app)
            /\ fg' = [fg EXCEPT !.pc = "fetch"]
            /\ lock' = "fg"
       ELSE /\ app' = IF app.view.t = "Pipelines" /\ app.selected_index >= 2
                      THEN save_view_state(app) ELSE app
            /\ fg' = FgIdle
            /\ lock' = lock
    /\ UNCHANGED bg

\* the fetch the foreground awaits answers; apply_key_action (or enter_view) runs to
\* its end and the guard is dropped
FgFetchDone(resp) ==
    /\ fg.pc = "fetch"
    /\ lock = "fg"
    /\ IF fg.action.k = "ViewDetails"
       THEN /\ resp \in RunResponses(fg.arg)
            /\ app' = enter_run_details_view_resume(app, fg.arg, resp)
       ELSE /\ resp \in RestoreResponses(app)
            /\ app' = IF fg.action.k = "ExecuteCommand"
                      THEN execute_command_finish(restore_state_resume(app, resp))
                      ELSE restore_state_resume(app, resp)
    /\ fg' = FgIdle
    /\ lock' = "none"
    /\ UNCHANGED bg

(***************************************************************************)
(* Pending view transitions (main.rs:87-94): next_view is taken and        *)
(* entered at the top of the loop, under one guard.                        *)
(***************************************************************************)
\* the views a transition may name
Targets ==
    {DefaultView, RunsV, ContextsV, PipelinesV, PipelineRunsV("etl")}

\* a transition (target, reset_history) is pending in next_view when the loop comes
\* round: it is taken and entered
EnterView(target, reset_history) ==
    /\ fg.pc = "idle"
    /\ lock = "none"
    /\ app.next_view = None
    /\ (~reset_history /\ target # app.view) => Len(app.view_history) < MaxHist
    /\ LET a0 == [app EXCEPT !.next_view = Some(<< target, reset_history >>)]
           next_view == Unwrap(a0.next_view)
           a1 == [a0 EXCEPT !.next_view = None]
       IN  /\ app' = enter_view_sync(a1, next_view[1], next_view[2])
           /\ IF enter_view_awaits(a1, next_view[1])
              THEN /\ fg' = [pc |-> "fetch",
                             action |-> [k |-> "EnterView", c |-> ""],
                             vh |-> 0, arg |-> ""]
                   /\ lock' = "fg"
              ELSE fg' = FgIdle /\ lock' = lock
    /\ UNCHANGED bg

(***************************************************************************)
(* The background poller (app.rs:305-322 and the poll of each view).       *)
(***************************************************************************)
\* the interval ticks: view and poller are read under the lock
BgSnapshot ==
    /\ bg.pc = "tick"
    /\ lock = "none"
    /\ bg' = [pc |-> "poll", view |-> app.view, poller |-> get_poller(app.view),
              arg |-> ""]
    /\ UNCHANGED << app, lock, fg >>

\* poll's first critical section: should_poll (and the run id, for RunPoller)
BgPollBegin ==
    /\ bg.pc = "poll"
    /\ lock = "none"
    /\ IF should_poll(bg.poller, app)
       THEN bg' = [bg EXCEPT !.pc = IF bg.poller = "RunsView" THEN "vars" ELSE "fetch",
                             !.arg = IF bg.poller = "RunPoller" THEN app.view.p ELSE ""]
       ELSE bg' = BgTick
    /\ UNCHANGED << app, lock, fg >>

\* RunsView::poll's second critical section: the pipeline filter of the query
BgRunsVars ==
    /\ bg.pc = "vars"
    /\ lock = "none"
    /\ bg' = [bg EXCEPT !.pc = "fetch", !.arg = runs_pipeline_name(app)]
    /\ UNCHANGED << app, lock, fg >>

\* the responses the poller's fetch may get
PollResponses ==
    CASE bg.poller = "RunsView" -> RunsResponses(bg.arg)
      [] bg.poller = "PipelinesView" -> PipelinesResponses
      [] OTHER -> RunResponses(bg.arg)

\* an answer with no runs returns without taking the lock (runs_view.rs:209)
MergeLocks(resp) == ~(bg.poller = "RunsView" /\ resp.ok /\ resp.val = << >>)

\* the fetch answers and the result is merged under the lock
BgMerge(resp) ==
    /\ bg.pc = "fetch"
    /\ resp \in PollResponses
    /\ MergeLocks(resp) => lock = "none"
    /\ app' = poll_merge(bg.poller, app, resp)
    /\ bg' = BgTick
    /\ UNCHANGED << lock, fg >>

(***************************************************************************)
(* The program: the foreground loop and the poller around the lock.  The   *)
(* user presses the keys of ProgramKeys and submits the commands of        *)
(* ProgramCommands; the service answers every fetch of the foreground and  *)
(* may fail the fetches of the poller.                                     *)
(***************************************************************************)
AllResponses ==
    RunsResponses("") \cup RunsResponses("etl") \cup RunsResponses("ml")
        \cup PipelinesResponses \cup RunResponses("r1") \cup RunResponses("r2")

Answers == { resp \in AllResponses : resp.ok }

\* the user navigates: commands, drill-downs with Enter, back with Esc
ProgramKeys == { Key("Esc"), Key("Enter"), Char(":") }
ProgramCommands == {"runs", "pipelines"}

Next ==
    \/ \E key \in ProgramKeys, vh \in ViewportHeights :
           FgKey(key, vh) /\ UNCHANGED last
    \/ FgApplySync /\ UNCHANGED last
    \/ \E cmd \in ProgramCommands : FgApplyCommand(cmd) /\ UNCHANGED last
    \/ FgApplyNavigateBack /\ UNCHANGED last
    \/ FgApplyViewDetails /\ UNCHANGED last
    \/ FgApplyViewPipelineRuns /\ UNCHANGED last
    \/ \E resp \in Answers : FgFetchDone(resp) /\ UNCHANGED last
    \/ BgSnapshot /\ UNCHANGED last
    \/ BgPollBegin /\ UNCHANGED last
    \/ BgRunsVars /\ UNCHANGED last
    \/ \E resp \in AllResponses : BgMerge(resp) /\ UNCHANGED last

Spec == Init /\ [][Next]_vars

\* the user also searches, in the run list and what lies below it ...
FilterKeys == ProgramKeys \cup { Char("/"), Char("t"), Key("Backspace") }
RunsCommands == {"runs"}

RunsFilterNext ==
    \/ \E key \in FilterKeys, vh \in ViewportHeights :
           FgKey(key, vh) /\ UNCHANGED last
    \/ FgApplySync /\ UNCHANGED last
    \/ \E cmd \in RunsCommands : FgApplyCommand(cmd) /\ UNCHANGED last
    \/ FgApplyNavigateBack /\ UNCHANGED last
    \/ FgApplyViewDetails /\ UNCHANGED last
    \/ \E resp \in Answers : FgFetchDone(resp) /\ UNCHANGED last
    \/ BgSnapshot /\ UNCHANGED last
    \/ BgPollBegin /\ UNCHANGED last
    \/ BgRunsVars /\ UNCHANGED last
    \/ \E resp \in AllResponses : BgMerge(resp) /\ UNCHANGED last

RunsFilterSpec == Init /\ [][RunsFilterNext]_vars

\* ... or in the pipeline list and what lies below it
PipelinesCommands == {"pipelines"}

PipelinesFilterNext ==
    \/ \E key \in FilterKeys, vh \in ViewportHeights :
           FgKey(key, vh) /\ UNCHANGED last
    \/ FgApplySync /\ UNCHANGED last
    \/ \E cmd \in PipelinesCommands : FgApplyCommand(cmd) /\ UNCHANGED last
    \/ FgApplyNavigateBack /\ UNCHANGED last
    \/ FgApplyViewDetails /\ UNCHANGED last
    \/ FgApplyViewPipelineRuns /\ UNCHANGED last
    \/ \E resp \in Answers : FgFetchDone(resp) /\ UNCHANGED last
    \/ BgSnapshot /\ UNCHANGED last
    \/ BgPollBegin /\ UNCHANGED last
    \/ BgRunsVars /\ UNCHANGED last
    \/ \E resp \in AllResponses : BgMerge(resp) /\ UNCHANGED last

PipelinesFilterSpec == Init /\ [][PipelinesFilterNext]_vars

(***************************************************************************)
(* Navigation alone: every enter_view(target, reset_history) the loop can  *)
(* be asked for through next_view, navigate_back, the selection keys and   *)
(* an unmatched search, with the poller left out.  last records the        *)
(* operation the foreground started last.                                  *)
(***************************************************************************)
NavKeys == { Key("Esc") }

KeyOp(action) == Op(action.k, DefaultView, FALSE, FALSE, "-")

NavNext ==
    \/ \E target \in Targets, reset_history \in BOOLEAN :
           /\ EnterView(target, reset_history)
           /\ last' = Op("EnterView", target, reset_history, target = app.view, "-")
    \/ \E key \in NavKeys, vh \in ViewportHeights :
           FgKey(key, vh) /\ UNCHANGED last
    \/ /\ FgApplyNavigateBack
       /\ last' = Op("NavigateBack", DefaultView, FALSE, FALSE,
                     IF can_navigate_back(app) THEN "true" ELSE "false")
    \/ \E resp \in AllResponses : FgFetchDone(resp) /\ UNCHANGED last

NavSpec == Init /\ [][NavNext]_vars

(***************************************************************************)
(* The cursor: the run list and the pipeline list entered through          *)
(* next_view, left with Esc or another transition, with the selection keys *)
(* and a search that matches no row.                                       *)
(***************************************************************************)
CursorKeys == { Key("Esc"), Key("Down"), Key("Up"), Char("/"), Char("z") }
CursorTargets == {RunsV, PipelinesV}

CursorNext ==
    \/ \E target \in CursorTargets, reset_history \in BOOLEAN :
           /\ EnterView(target, reset_history)
           /\ last' = Op("EnterView", target, reset_history, target = app.view, "-")
    \/ \E key \in CursorKeys, vh \in ViewportHeights :
           FgKey(key, vh) /\ UNCHANGED last
    \/ FgApplySync /\ last' = KeyOp(fg.action)
    \/ /\ FgApplyNavigateBack
       /\ last' = Op("NavigateBack", DefaultView, FALSE, FALSE,
                     IF can_navigate_back(app) THEN "true" ELSE "false")
    \/ \E resp \in Answers : FgFetchDone(resp) /\ UNCHANGED last

CursorSpec == Init /\ [][CursorNext]_vars

(***************************************************************************)
(* Failing fetches: the run list and the pipeline list entered through     *)
(* next_view and left with Esc, every fetch of the foreground and of the   *)
(* poller free to fail.  last.ret records what the enter_view or the       *)
(* navigate_back of the foreground returned.                               *)
(***************************************************************************)
\* enter_view returns what restore_state returned (the ? of app.rs:388-401), and
\* restore_state the error of its fetch (runs_view.rs:394-402)
enter_view_result(resp) == IF resp.ok THEN "Ok(())" ELSE "Err"

\* navigate_back likewise (the ? of app.rs:443-456), Ok(true) otherwise
navigate_back_result(resp) == IF resp.ok THEN "Ok(true)" ELSE "Err"

StatusKeys == { Key("Esc") }
StatusTargets == {RunsV, PipelinesV}

StatusNext ==
    \/ \E target \in StatusTargets, reset_history \in BOOLEAN :
           /\ EnterView(target, reset_history)
           /\ last' = Op("EnterView", target, reset_history, target = app.view,
                         IF target = app.view THEN "Ok(())" ELSE "-")
    \/ \E key \in StatusKeys, vh \in ViewportHeights :
           FgKey(key, vh) /\ UNCHANGED last
    \/ /\ FgApplyNavigateBack
       /\ last' = Op("NavigateBack", DefaultView, FALSE, FALSE,
                     IF ~can_navigate_back(app) THEN "Ok(false)"
                     ELSE IF AwaitsFetch(app'.view) THEN "-" ELSE "Ok(true)")
    \/ \E resp \in AllResponses :
           /\ FgFetchDone(resp)
           /\ last' = [last EXCEPT !.ret =
                          IF fg.action.k = "NavigateBack"
                          THEN navigate_back_result(resp)
                          ELSE enter_view_result(resp)]
    \/ BgSnapshot /\ UNCHANGED last
    \/ BgPollBegin /\ UNCHANGED last
    \/ BgRunsVars /\ UNCHANGED last
    \/ \E resp \in AllResponses : BgMerge(resp) /\ UNCHANGED last

StatusSpec == Init /\ [][StatusNext]_vars

(***************************************************************************)
(* fuzzy_match on its own (src/search.rs): a row and a query are drawn,    *)
(* and the call returns.  last holds the call: its arguments, whether it   *)
(* has returned, and what it returned.                                     *)
(***************************************************************************)
RECURSIVE Strings(_, _)
\* the texts of at most n characters over the alphabet
Strings(alphabet, n) ==
    IF n = 0 THEN {""}
    ELSE Strings(alphabet, n - 1)
             \cup { s \o c : s \in Strings(alphabet, n - 1), c \in alphabet }

FuzzyInit ==
    /\ app = AppNew
    /\ lock = "none"
    /\ fg = FgIdle
    /\ bg = BgTick
    /\ \E haystack \in Strings({"a", "A", "b"}, MaxHaystackLen),
          needle \in Strings({"a", "A", "b"}, MaxNeedleLen) :
           last = [k |-> "fuzzy_match", haystack |-> haystack, needle |-> needle,
                   done |-> FALSE, ret |-> FALSE]

FuzzyNext ==
    /\ ~last.done
    /\ last' = [last EXCEPT !.done = TRUE,
                            !.ret = fuzzy_match(last.haystack, last.needle)]
    /\ UNCHANGED << app, lock, fg, bg >>

FuzzySpec == FuzzyInit /\ [][FuzzyNext]_vars

(***************************************************************************)
(* The column layout of the run table (src/app.rs:61-178), called by       *)
(* RunsView::draw (src/views/runs_view.rs:265-271).                        *)
(***************************************************************************)
\* ColumnsConfig::new() in the order of get_ordered_columns
get_ordered_columns ==
    << [name |-> "RUN ID", width |-> 36, min_width |-> 36, priority |-> 1],
       [name |-> "PIPELINE", width |-> 30, min_width |-> 10, priority |-> 2],
       [name |-> "STATUS", width |-> 15, min_width |-> 7, priority |-> 4],
       [name |-> "DURATION", width |-> 15, min_width |-> 8, priority |-> 3],
       [name |-> "START TIME", width |-> 25, min_width |-> 12, priority |-> 5] >>

\* columns.sort_by_key(|c| c.priority): the priorities are distinct
sort_by_priority(columns) ==
    [i \in 1..Len(columns) |->
        CHOOSE c \in { columns[j] : j \in 1..Len(columns) } :
            Cardinality({ j \in 1..Len(columns) :
                            columns[j].priority < c.priority }) = i - 1]

\* the arithmetic checks of the build: a debug build panics where a release build wraps
Builds == {"debug", "release"}

\* no column is hidden
hide_columns_hides_nothing(widths, i, current_total, available) == widths

RECURSIVE hide_columns_until_below(_, _, _, _)
\* hides columns until the total is below available, not until it fits
hide_columns_until_below(widths, i, current_total, available) ==
    IF i = 0 \/ current_total < available THEN widths
    ELSE hide_columns_until_below([widths EXCEPT ![i] = 0], i - 1,
                                  current_total - widths[i], available)

RECURSIVE hide_columns(_, _, _, _)
\* for col in columns.iter().rev() from column i down (1-based): idx is i, the
\* position of the one column with col's priority
hide_columns(widths, i, current_total, available) ==
    IF i = 0 \/ current_total <= available THEN widths
    ELSE hide_columns([widths EXCEPT ![i] = 0], i - 1,
                      current_total - widths[i], available)

\* no column is granted anything: the surplus stays in remaining_space
grow_columns_grants_nothing(columns, widths, i, remaining_space) ==
    [widths |-> widths, remaining_space |-> remaining_space]

RECURSIVE grow_columns(_, _, _, _)
\* for (i, col) in columns.iter().enumerate() from column i on (1-based): the
\* widths and the remaining_space the loop ends with
grow_columns(columns, widths, i, remaining_space) ==
    IF i > Len(columns) \/ remaining_space = 0
    THEN [widths |-> widths, remaining_space |-> remaining_space]
    ELSE LET current == widths[i]
             desired == columns[i].width
         IN  IF current < desired
             THEN LET extra == Min(desired - current, remaining_space)
                  IN  grow_columns(columns, [widths EXCEPT ![i] = current + extra],
                                   i + 1, remaining_space - extra)
             ELSE grow_columns(columns, widths, i + 1, remaining_space)

RECURSIVE Sum(_)
Sum(seq) == IF seq = << >> THEN 0 ELSE Head(seq) + Sum(Tail(seq))

\* what the call does: it returns the widths (outcome "ok"), or the subtraction of
\* app.rs:130 underflows, which panics in a debug build and wraps to
\* 2^64 - (4 - available_width) in a release build; the widths computed from the
\* wrapped value (near 2^64 / 5 each) lie beyond the integers used here and are
\* left out
calculate_widths(available_width, build) ==
    LET total_spacing == 4
        columns == sort_by_priority(get_ordered_columns)
        min_widths == [i \in 1..Len(columns) |-> columns[i].min_width]
        min_total == Sum(min_widths)
    IN  IF available_width < total_spacing
        THEN [outcome |-> IF build = "debug" THEN "panic" ELSE "wrapped",
              widths |-> << >>]
        ELSE LET available == available_width - total_spacing
             IN  IF available <= min_total
                 THEN [outcome |-> "ok",
                       widths |-> hide_columns(min_widths, Len(columns),
                                               min_total, available)]
                 ELSE LET g == grow_columns(columns, min_widths, 1,
                                            available - min_total)
                          share == g.remaining_space \div Len(g.widths)
                      IN  [outcome |-> "ok",
                           widths |->
                               IF g.remaining_space > 0
                               THEN [i \in 1..Len(g.widths) |->
                                        IF g.widths[i] > 0
                                        THEN g.widths[i] + share
                                        ELSE g.widths[i]]
                               ELSE g.widths]

\* the header of RunsView::draw (runs_view.rs:286-292) before formatting: the
\* columns of get_ordered_columns zipped with the widths, those of width 0 left out
draw_header_columns(dynamic_widths) ==
    LET columns == get_ordered_columns
        zipped == [i \in 1..Min(Len(columns), Len(dynamic_widths)) |->
                      [name |-> columns[i].name, width |-> dynamic_widths[i]]]
    IN  SelectSeq(zipped, LAMBDA z : z.width > 0)

\* last holds one draw of the run table: the width of its area, the build, and
\* how far the draw has come (pc): "draw" before viewport_width - 2, "call" with
\* the argument of calculate_widths computed, "done" with its result in ret, or
\* "panic" where viewport_width - 2 has panicked
WidthInit ==
    /\ app = AppNew
    /\ lock = "none"
    /\ fg = FgIdle
    /\ bg = BgTick
    /\ \E area_width \in 0..MaxAreaWidth, build \in Builds :
           last = [k |-> "draw", area_width |-> area_width, build |-> build,
                   pc |-> "draw", available_width |-> 0,
                   ret |-> [outcome |-> "-", widths |-> << >>]]

WidthNext ==
    \* viewport_width - 2 on u16 (runs_view.rs:270)
    \/ /\ last.pc = "draw"
       /\ last' = IF last.area_width >= 2 \/ last.build = "release"
                  THEN [last EXCEPT !.pc = "call",
                                    !.available_width = (last.area_width - 2) % 65536]
                  ELSE [last EXCEPT !.pc = "panic"]
       /\ UNCHANGED << app, lock, fg, bg >>
    \* columns_config.calculate_widths(..)
    \/ /\ last.pc = "call"
       /\ last' = [last EXCEPT !.pc = "done",
                               !.ret = calculate_widths(last.available_width,
                                                        last.build)]
       /\ UNCHANGED << app, lock, fg, bg >>

WidthSpec == WidthInit /\ [][WidthNext]_vars

(***************************************************************************)
(* The foreground loop on its own: the user submits the commands runs,     *)
(* pipelines and contexts, drills down with Enter and goes back with Esc;  *)
(* the fetches of the foreground succeed or fail.                          *)
(***************************************************************************)
ShapeCommands == {"runs", "pipelines", "contexts"}

ShapeNext ==
    \/ \E key \in ProgramKeys, vh \in ViewportHeights :
           FgKey(key, vh) /\ UNCHANGED last
    \/ FgApplySync /\ UNCHANGED last
    \/ \E cmd \in ShapeCommands : FgApplyCommand(cmd) /\ UNCHANGED last
    \/ FgApplyNavigateBack /\ UNCHANGED last
    \/ FgApplyViewDetails /\ UNCHANGED last
    \/ FgApplyViewPipelineRuns /\ UNCHANGED last
    \/ \E resp \in AllResponses : FgFetchDone(resp) /\ UNCHANGED last

ShapeSpec == Init /\ [][ShapeNext]_vars

(***************************************************************************)
(* next_item and previous_item on their own (src/app.rs:534-572): a list   *)
(* of some data rows under header and separator, the selection on the      *)
(* first data row, and a viewport of constant height.  last holds the      *)
(* viewport height and the call made last.                                 *)
(***************************************************************************)
SelectInit ==
    /\ lock = "none"
    /\ fg = FgIdle
    /\ bg = BgTick
    /\ \E rows \in 0..MaxRows, viewport_height \in 3..MaxViewportHeight :
           /\ app = [AppNew EXCEPT
                        !.view = RunsV,
                        !.items = << "HEADER", "SEPARATOR" >>
                                      \o [i \in 1..rows |-> "row"],
                        !.selected_index = 2,
                        !.list_offset = 0]
           /\ last = [k |-> "new", viewport_height |-> viewport_height]

SelectNext ==
    \/ /\ app' = next_item(app, last.viewport_height)
       /\ last' = [last EXCEPT !.k = "next_item"]
       /\ UNCHANGED << lock, fg, bg >>
    \/ /\ app' = previous_item(app, last.viewport_height)
       /\ last' = [last EXCEPT !.k = "previous_item"]
       /\ UNCHANGED << lock, fg, bg >>

SelectSpec == SelectInit /\ [][SelectNext]_vars

(***************************************************************************)
(* Drill-downs beside the poller: from the Default view the run list or    *)
(* the pipeline list is entered through next_view, the user moves the      *)
(* selection down and presses Enter, and the poller merges its answers in  *)
(* between.                                                                *)
(***************************************************************************)
DrillKeys == { Key("Enter"), Key("Down") }

DrillNext ==
    \/ \E target \in {RunsV, PipelinesV} :
           /\ app.view = DefaultView
           /\ EnterView(target, TRUE)
           /\ UNCHANGED last
    \/ \E key \in DrillKeys, vh \in ViewportHeights :
           FgKey(key, vh) /\ UNCHANGED last
    \/ FgApplySync /\ UNCHANGED last
    \/ FgApplyViewDetails /\ UNCHANGED last
    \/ FgApplyViewPipelineRuns /\ UNCHANGED last
    \/ \E resp \in Answers : FgFetchDone(resp) /\ UNCHANGED last
    \/ BgSnapshot /\ UNCHANGED last
    \/ BgPollBegin /\ UNCHANGED last
    \/ BgRunsVars /\ UNCHANGED last
    \/ \E resp \in Answers : BgMerge(resp) /\ UNCHANGED last

DrillSpec == Init /\ [][DrillNext]_vars

(***************************************************************************)
(* The two locks on their own.  App sits behind one tokio Mutex (the       *)
(* application lock, held by `lock`) and App.state behind a second one     *)
(* (the data-store lock, held by last.state).  A tokio Mutex is not        *)
(* reentrant: a task that requests a lock it holds waits forever.  Each    *)
(* task carries in `todo` the lock operations left of the code path it is  *)
(* on: "app.lock", "app.unlock", "state.lock", "state.unlock", and "fetch" *)
(* for the await of a request to the service.  Every path is offered in    *)
(* every state, whatever the view is.                                      *)
(***************************************************************************)
\* { let state = self.state.lock().await; ... }: the guard is dropped at the
\* end of its block or statement, or by drop(state)
StateSection == << "state.lock", "state.unlock" >>

\* { let app_guard = app.lock().await; body }
AppSection(body) == << "app.lock" >> \o body \o << "app.unlock" >>

ViewTags == { "Default", "Runs", "Contexts", "Pipelines", "PipelineRuns", "Run" }

\* fetch_initial_data without drop(state): the guard taken for the store of
\* the answer lives until the function returns, across populate_*_items
restore_state_locks_without_drop(t, ok) ==
    LET stored == IF ok THEN << "state.lock" >> \o StateSection \o << "state.unlock" >>
                        ELSE << >>
    IN  IF t \in { "Runs", "PipelineRuns" }
        THEN (IF t = "PipelineRuns" THEN << >> ELSE StateSection)
                 \o StateSection \o << "fetch" >> \o stored
        ELSE IF t = "Pipelines" THEN << "fetch" >> \o stored
        ELSE << >>

\* restore_state of the view with tag t, with fetch_initial_data, fetch_runs
\* and populate_*_items inlined; ok tells whether the fetch succeeds
restore_state_locks(t, ok) ==
    LET stored == IF ok THEN StateSection \o StateSection ELSE << >>
    IN  IF t \in { "Runs", "PipelineRuns" }
        THEN (IF t = "PipelineRuns" THEN << >> ELSE StateSection)
                 \o StateSection \o << "fetch" >> \o stored
        ELSE IF t = "Pipelines" THEN << "fetch" >> \o stored
        ELSE << >>

\* enter_view(target, _) where the target differs from the current view
enter_view_locks(t, ok) ==
    (IF t = "Runs" THEN StateSection ELSE << >>) \o restore_state_locks(t, ok)

\* apply_key_action: the commands, the drill-downs and navigate_back
apply_key_action_locks ==
    { enter_view_locks(t, ok) : t \in { "Contexts", "Pipelines" }, ok \in BOOLEAN }
        \cup { StateSection \o enter_view_locks("Runs", ok) : ok \in BOOLEAN }
        \cup { StateSection }
        \cup { StateSection \o enter_view_locks("PipelineRuns", ok) : ok \in BOOLEAN }
        \cup { restore_state_locks(t, ok) : t \in ViewTags, ok \in BOOLEAN }
        \cup { << "fetch" >> }

\* the sections of one turn of run_app: the pending transition, the draw, the
\* snapshot for handle_key, and apply_key_action
run_app_locks ==
    { AppSection(enter_view_locks(t, ok)) : t \in ViewTags, ok \in BOOLEAN }
        \cup { AppSection(<< >>) }
        \cup { AppSection(body) : body \in apply_key_action_locks }

\* one tick of start_polling: the snapshot of the view, then poll of RunsView,
\* PipelinesView, RunPoller or of a view that polls nothing
poll_locks ==
    LET snapshot == AppSection(<< >>)
        merge == AppSection(StateSection \o StateSection)
    IN  { snapshot,
          snapshot \o snapshot,
          snapshot \o snapshot \o AppSection(StateSection) \o << "fetch" >>,
          snapshot \o snapshot \o AppSection(StateSection) \o << "fetch" >> \o snapshot,
          snapshot \o snapshot \o AppSection(StateSection) \o << "fetch" >> \o merge,
          snapshot \o snapshot \o << "fetch" >> \o snapshot,
          snapshot \o snapshot \o << "fetch" >> \o merge }

LockInit ==
    /\ app = AppNew
    /\ lock = "none"
    /\ fg = [pc |-> "locks", todo |-> << >>]
    /\ bg = [pc |-> "locks", todo |-> << >>]
    /\ last = [k |-> "locks", state |-> "none"]

\* the task waits for a lock that is held
Blocked(task) ==
    /\ task.todo # << >>
    /\ \/ Head(task.todo) = "app.lock" /\ lock # "none"
       \/ Head(task.todo) = "state.lock" /\ last.state # "none"

\* the task `who` performs the next lock operation of its path
LockStep(who, task) ==
    /\ task.todo # << >>
    /\ ~Blocked(task)
    /\ lock' = CASE Head(task.todo) = "app.lock" -> who
                 [] Head(task.todo) = "app.unlock" -> "none"
                 [] OTHER -> lock
    /\ last' = CASE Head(task.todo) = "state.lock" -> [last EXCEPT !.state = who]
                 [] Head(task.todo) = "state.unlock" -> [last EXCEPT !.state = "none"]
                 [] OTHER -> last

LockNext ==
    \/ /\ fg.todo = << >>
       /\ \E path \in run_app_locks : fg' = [fg EXCEPT !.todo = path]
       /\ UNCHANGED << app, lock, bg, last >>
    \/ /\ LockStep("fg", fg)
       /\ fg' = [fg EXCEPT !.todo = Tail(fg.todo)]
       /\ UNCHANGED << app, bg >>
    \/ /\ bg.todo = << >>
       /\ \E path \in poll_locks : bg' = [bg EXCEPT !.todo = path]
       /\ UNCHANGED << app, lock, fg, last >>
    \/ /\ LockStep("bg", bg)
       /\ bg' = [bg EXCEPT !.todo = Tail(bg.todo)]
       /\ UNCHANGED << app, fg >>

LockSpec == LockInit /\ [][LockNext]_vars

(***************************************************************************)
(* Freshness of what is displayed.  The service answers every fetch; the   *)
(* foreground loop, once a key has given it an action, runs on to the end  *)
(* of apply_key_action, and the poller runs on from tick to tick; the user *)
(* presses keys or not.  last records, since the view was entered last,    *)
(*   issued  the fetch the poller has in flight was sent after that, and   *)
(*   shown   what is displayed has been the answer of a fetch sent after   *)
(*           that.                                                         *)
(***************************************************************************)
\* the views whose rows or details come from the service
DataBacked(view) == view.t \in {"Runs", "PipelineRuns", "Pipelines", "Run"}

\* what draw shows of the service's data: the details of the run, or the rows
Displayed(a) ==
    IF a.view.t = "Run"
    THEN (IF IsSome(a.run_view) THEN a.run_view[1].details ELSE None)
    ELSE a.items

\* the same for the answer resp of a fetch made for the view of a
Rendered(a, resp) ==
    CASE a.view.t = "Run" -> Some(resp.val[1])
      [] a.view.t = "Pipelines" ->
             populate_pipelines_items_into([a EXCEPT !.state.pipelines = resp.val])
      [] OTHER -> populate_runs_items_into([a EXCEPT !.state.runs = resp.val])

\* last after a step that completes no fetch
LiveStep ==
    IF app'.view # app.view
    THEN [last EXCEPT !.shown = FALSE, !.issued = FALSE]
    ELSE [last EXCEPT !.issued = (bg'.pc = "fetch" /\ bg.pc # "fetch") \/ @]

\* last after the step in which the fetch of `who` has answered resp
LiveFetched(who, resp) ==
    IF app'.view # app.view
    THEN [last EXCEPT !.shown = FALSE, !.issued = FALSE]
    ELSE LET after == IF who = "fg" THEN fg.action.k # "ViewDetails"
                      ELSE last.issued /\ get_poller(app.view) = bg.poller
         IN  [last EXCEPT
                 !.shown = @ \/ (after /\ DataBacked(app.view)
                                       /\ Displayed(app') = Rendered(app', resp)),
                 !.issued = IF who = "bg" THEN FALSE ELSE @]

LiveInit ==
    /\ app = AppNew
    /\ lock = "none"
    /\ fg = FgIdle
    /\ bg = BgTick
    /\ last = [k |-> "live", shown |-> FALSE, issued |-> FALSE]

\* the foreground loop from the action it holds to the end of apply_key_action
LiveForeground ==
    \/ FgApplySync /\ last' = LiveStep
    \/ \E cmd \in ProgramCommands : FgApplyCommand(cmd) /\ last' = LiveStep
    \/ FgApplyNavigateBack /\ last' = LiveStep
    \/ FgApplyViewDetails /\ last' = LiveStep
    \/ FgApplyViewPipelineRuns /\ last' = LiveStep
    \/ \E resp \in Answers : FgFetchDone(resp) /\ last' = LiveFetched("fg", resp)

\* start_polling from one tick to the next
LivePoller ==
    \/ BgSnapshot /\ last' = LiveStep
    \/ BgPollBegin /\ last' = LiveStep
    \/ BgRunsVars /\ last' = LiveStep
    \/ \E resp \in Answers : BgMerge(resp) /\ last' = LiveFetched("bg", resp)

LiveNext ==
    \/ \E key \in ProgramKeys, vh \in ViewportHeights :
           FgKey(key, vh) /\ last' = LiveStep
    \/ LiveForeground
    \/ LivePoller

\* a step of LiveForeground is possible: the loop holds an action and the lock
\* is free, or it awaits the answer of its fetch
FgReady == (fg.pc = "apply" /\ lock = "none") \/ fg.pc = "fetch"

\* a step of LivePoller is possible: the lock is free, or the fetch in flight
\* can answer with no runs, which is dropped without the lock
BgReady ==
    \/ lock = "none"
    \/ bg.pc = "fetch" /\ \E resp \in Answers \cap PollResponses : ~MergeLocks(resp)

\* the steps of LiveForeground, as fg shows them: the loop comes back to idle
\* or suspends in its fetch
FgProgress ==
    /\ FgReady
    /\ fg' \in {FgIdle} \cup { [fg EXCEPT !.pc = "fetch", !.arg = arg] :
                                  arg \in {"", "r1", "r2"} }

\* the steps of LivePoller, as bg shows them
BgProgress ==
    /\ BgReady
    /\ bg' \in {BgTick}
              \cup { [pc |-> "poll", view |-> app.view,
                      poller |-> get_poller(app.view), arg |-> ""] }
              \cup { [bg EXCEPT !.pc = pc, !.arg = arg] :
                         pc \in {"vars", "fetch"},
                         arg \in {"", "etl", "ml", "r1", "r2"} }

\* weak fairness of the foreground loop and of the poller: a task that can
\* take its next step from some point on does take it
LiveSpec ==
    LiveInit /\ [][LiveNext]_vars /\ WF_fg(FgProgress) /\ WF_bg(BgProgress)

(***************************************************************************)
(* Staleness of poll results (spec 4.2, "Staleness guard").                *)
(***************************************************************************)
\* the poller's fetch answers and poll runs to its end
PollCompletes == bg.pc = "fetch" /\ bg'.pc = "tick"

\* C1: a run-list poll result is merged only if the view at merge time is the view
\* (variant and payload) that was current when the poll took its snapshot; if the
\* view has changed meanwhile, the result is discarded without any state change.
C1_RunListStalenessGuard ==
    [][ (PollCompletes /\ bg.poller = "RunsView" /\ app.view # bg.view)
            => app' = app ]_vars

\* C2: a run-detail poll result fetched for Run(a) changes neither the details of
\* the run view nor connection_status if the view at merge time is not Run(a).
C2_RunDetailStalenessGuard ==
    [][ (PollCompletes /\ bg.poller = "RunPoller" /\ app.view # RunV(bg.arg))
            => /\ app'.run_view = app.run_view
               /\ app'.connection_status = app.connection_status ]_vars

\* C3: a poll whose snapshot was taken while viewing Runs and whose merge (success
\* or failure) is attempted with the view changed to Pipelines alters none of
\* items, state.runs and connection_status.
C3_RunsPollAfterPipelines ==
    [][ (PollCompletes /\ bg.view = RunsV /\ app.view = PipelinesV)
            => /\ app'.items = app.items
               /\ app'.state.runs = app.state.runs
               /\ app'.connection_status = app.connection_status ]_vars

\* a run-list poll snapshotted in Runs is in flight, the user has moved to the
\* pipeline list, whose rows are loaded, and the merge can take the lock
C3_Witness ==
    /\ bg.pc = "fetch" /\ bg.poller = "RunsView" /\ bg.view = RunsV
    /\ app.view = PipelinesV
    /\ Len(app.items) > 2 /\ app.items # PipelinesLoading
    /\ lock = "none" /\ fg.pc = "idle"

(***************************************************************************)
(* Filter-aware merges (spec 4.2, "Filter-aware merge").                   *)
(***************************************************************************)
\* apply_filter(rows, q) of the specification: all rows for the empty query, else
\* header and separator followed by the matching rows
apply_filter(rows, q) ==
    IF q = "" THEN rows
    ELSE << rows[1], rows[2] >> \o FilterRows(rows, 3, q)

FilterOn == app.search_mode \/ app.has_committed_filter

\* C4: when a successful run-list poll is merged while a filter is active or
\* committed with query q, afterwards unfiltered_items is the rows built from the
\* fetched runs and items is apply_filter(those rows, q).
C4_RunsFilterThenRefresh ==
    [][ \A resp \in AllResponses :
            (/\ BgMerge(resp) /\ bg.poller = "RunsView"
             /\ resp.ok /\ resp.val # << >> /\ IsRunsLike(app.view)
             /\ FilterOn)
                => LET rows == << "HEADER", "SEPARATOR" >> \o RunRows(resp.val)
                   IN  /\ app'.unfiltered_items = rows
                       /\ app'.items = apply_filter(rows, app.search_input) ]_vars

\* a run-list poll is in flight in the run list, the query "t" is committed over
\* the one run r1, and the merge can take the lock (the answer r2, r1 brings a row
\* the query does not match)
C4_Witness ==
    /\ bg.pc = "fetch" /\ bg.poller = "RunsView" /\ bg.arg = ""
    /\ app.view = RunsV
    /\ app.has_committed_filter /\ ~app.search_mode /\ app.search_input = "t"
    /\ app.state.runs = << Run1 >>
    /\ lock = "none" /\ fg.pc = "idle"

\* C5: whenever a successful pipeline-list poll is merged while the filter overlay
\* is active or was committed, with a non-empty query q, the merge replaces the
\* unfiltered buffer with the new rows and re-runs the filter, also when q matches
\* every displayed row; fetched rows that do not match q never appear in items.
C5_PipelinesFilterAwareMerge ==
    [][ \A resp \in PipelinesResponses :
            (/\ BgMerge(resp) /\ bg.poller = "PipelinesView"
             /\ resp.ok /\ app.view = PipelinesV
             /\ FilterOn /\ app.search_input # "")
                => LET rows == << PipelinesHeader, Repeat("-", 80) >>
                                   \o PipelineRows(resp.val)
                   IN  /\ app'.unfiltered_items = rows
                       /\ app'.items = apply_filter(rows, app.search_input) ]_vars

(***************************************************************************)
(* Lock discipline (spec 5).                                               *)
(***************************************************************************)
\* C6: in no reachable state does a task hold the application lock while one of
\* its network fetches is in flight, neither the poller nor the foreground loop.
C6_LockDiscipline ==
    /\ fg.pc = "fetch" => lock # "fg"
    /\ bg.pc = "fetch" => lock # "bg"

(***************************************************************************)
(* Navigation (spec 4.1 and 8).                                            *)
(***************************************************************************)
\* C7: after any sequence of enter and navigate_back operations, the top entry of
\* the history stack, when the stack is non-empty, is never the current view.
C7_HistoryTopIsNotCurrent ==
    Len(app.view_history) > 0
        => app.view_history[Len(app.view_history)] # app.view

\* navigate_back has popped a view off a history that is still not empty
C7_Witness ==
    /\ last.k = "NavigateBack" /\ last.ret = "true" /\ fg.pc = "idle"
    /\ Len(app.view_history) > 0
    /\ app.view # DefaultView

\* what C8 says an enter of the current view leaves alone
EnterFrame ==
    << app.view_history, app.view_state_cache, app.items, app.search_mode,
       app.search_input, app.has_committed_filter, app.unfiltered_items, app.view >>

\* C8: enter(target, reset_history) with target the current view, for either value
\* of reset_history, leaves history, view-state cache, items, the search overlay
\* state and the current view unchanged.
C8_EnterIdempotence ==
    [][ \A target \in Targets, reset_history \in BOOLEAN :
            (EnterView(target, reset_history) /\ target = app.view)
                => EnterFrame' = EnterFrame ]_vars

\* the current view has just been entered again with reset_history, while a search
\* was being typed over a history that a reset would have changed
C8_Witness ==
    /\ last.k = "EnterView" /\ last.same /\ last.reset
    /\ app.search_mode /\ app.search_input # ""
    /\ Len(app.view_history) > 1
    /\ app.view \in DOMAIN app.view_state_cache

C10_CursorRoundTrip ==
    [][ /\ (app'.view # app.view /\ IsListView(app.view))
            => /\ app.view \in DOMAIN app'.view_state_cache
               /\ app'.view_state_cache[app.view]
                      = << app.selected_index, app.list_offset >>
        /\ \A v \in DOMAIN app.view_state_cache :
               v # app.view
                   => /\ v \in DOMAIN app'.view_state_cache
                      /\ (v # app'.view
                              => app'.view_state_cache[v] = app.view_state_cache[v])
        /\ (app'.view # app.view /\ app'.view \in DOMAIN app.view_state_cache)
            => << app'.selected_index, app'.list_offset >>
                   = app.view_state_cache[app'.view] ]_vars


(***************************************************************************)
(* The cursor after restore_state (spec 4.1) and the selectable rows       *)
(* (spec 3).                                                               *)
(***************************************************************************)
\* the fetch awaited by the restore_state of an enter_view or a navigate_back answers
RestoreCompletes == fg.pc = "fetch" /\ fg'.pc = "idle" /\ fg.action.k # "ViewDetails"

\* C11: after restore_state of a list view completes, on enter or navigate_back,
\* selected_index is below items.len(), also when the cached cursor was saved
\* against a longer list than the one just fetched.
C11_CursorClamped ==
    [][ (RestoreCompletes /\ IsListView(app'.view))
            => app'.selected_index < Len(app'.items) ]_vars

\* C12: when a list view is entered and the view-state cache holds no entry for
\* it, selected_index is 2 and list_offset is 0 after restore_state, whatever the
\* cursor of the view shown before was.  (enter_view saves the cursor of the view
\* it leaves, so the cache has an entry for the view being restored exactly when
\* it had one on entry.)
C12_DefaultCursor ==
    [][ (RestoreCompletes /\ IsListView(app.view)
            /\ app.view \notin DOMAIN app.view_state_cache)
            => app'.selected_index = 2 /\ app'.list_offset = 0 ]_vars

\* C13: in every reachable state whose view is a list view, selected_index >= 2:
\* neither the header row nor the separator row is ever the selected row.
C13_SelectionFloor ==
    IsListView(app.view) => app.selected_index >= 2


(***************************************************************************)
(* Failures (spec 4.1, 4.2 and 7).                                         *)
(***************************************************************************)
\* C14: a failed background poll (run list, pipeline list or run details) leaves
\* items, unfiltered_items, state.runs, state.pipelines and the details of the
\* run view unchanged; it may only change connection_status.
C14_FailedPollKeepsData ==
    [][ \A resp \in AllResponses :
            (BgMerge(resp) /\ ~resp.ok)
                => /\ app'.items = app.items
                   /\ app'.unfiltered_items = app.unfiltered_items
                   /\ app'.state = app.state
                   /\ app'.run_view = app.run_view ]_vars

\* a poll of the run list is in flight over a list of loaded runs, the status is
\* Connected, and the failure of the poll can take the lock
C14_Witness ==
    /\ bg.pc = "fetch" /\ bg.poller = "RunsView"
    /\ app.view = RunsV
    /\ app.state.runs = << Run2, Run1 >>
    /\ Len(app.items) = 4
    /\ app.connection_status = Connected
    /\ lock = "none" /\ fg.pc = "idle"


\* C15: when the fetch issued by a list view's restore_state fails, during enter
\* or navigate_back, connection_status is set to Failed(message) and the
\* navigation operation reports success: no error reaches the caller and
\* connection_status does not keep its previous value.
C15_RestoreFailureSurfaced ==
    [][ \A resp \in AllResponses :
            (FgFetchDone(resp) /\ ~resp.ok)
                => /\ app'.connection_status.t = "Failed"
                   /\ last'.ret \in {"Ok(())", "Ok(true)"} ]_vars

\* C16: when restore_state fails while entering or navigating back to list view
\* T, the transition is not reverted: the view is T, the history is as for a
\* successful transition, and items is header, separator and one loading row.
C16_FailedRestoreKeepsTransition ==
    [][ \A resp \in AllResponses :
            (FgFetchDone(resp) /\ ~resp.ok)
                => /\ app'.view = app.view
                   /\ IsListView(app'.view)
                   /\ app'.items = IF app.view.t = "Pipelines"
                                    THEN PipelinesLoading ELSE RunsLoading
                   /\ Len(app'.items) = 3
                   /\ \A ok \in { r \in RestoreResponses(app) : r.ok } :
                          app'.view_history = restore_state_resume(app, ok).view_history
    ]_vars

\* navigate_back to the run list has failed to fetch: the view is Runs, taken from
\* a history that still holds Default, over the loading rows
C16_Witness ==
    /\ last.k = "NavigateBack" /\ last.ret = "Err"
    /\ fg.pc = "idle"
    /\ app.view = RunsV
    /\ app.view_history = << DefaultView >>
    /\ app.items = RunsLoading

\* C17: connection_status is Connected only if the most recent network attempt (a
\* fetch of the foreground or of the poller, completing) succeeded: a failed network attempt never leaves Connected in place, and no
\* step that completes no network attempt sets Connected.  (The status is not
\* Connected initially, so the two make Connected imply that the most recent
\* attempt succeeded.)
C17_StatusFollowsLastAttempt ==
    [][ /\ \A resp \in AllResponses :
               ((FgFetchDone(resp) \/ BgMerge(resp)) /\ ~resp.ok)
                   => app'.connection_status # Connected
        /\ (~ \E resp \in AllResponses : FgFetchDone(resp) \/ BgMerge(resp))
               => (app'.connection_status = Connected
                       => app.connection_status = Connected) ]_vars


(***************************************************************************)
(* Filtering (spec 4.3).                                                   *)
(***************************************************************************)
\* C18: fuzzy_match(row, query) is true exactly when the lower-cased query is an
\* in-order, not necessarily contiguous, subsequence of the lower-cased row: some
\* strictly increasing choice of row positions spells the query.  So it is true
\* for the empty query and false for an empty row with a non-empty query.
C18_FuzzyMatchIsSubsequence ==
    last.done =>
        LET r == to_lowercase(last.haystack)
            q == to_lowercase(last.needle)
        IN  /\ last.ret <=>
                   \E f \in [1..Len(q) -> 1..Len(r)] :
                       /\ \A i, j \in 1..Len(q) : i < j => f[i] < f[j]
                       /\ \A i \in 1..Len(q) :
                              SubSeq(r, f[i], f[i]) = SubSeq(q, i, i)
            /\ last.needle = "" => last.ret
            /\ (last.haystack = "" /\ last.needle # "") => ~last.ret

\* the query "aa" has matched the row "Aba": not contiguously, and across case
C18_Witness ==
    /\ last.done /\ last.ret
    /\ last.haystack = "Aba" /\ last.needle = "aa"


C20_SelectionAfterFilter ==
    [][ (/\ FgApplySync
         /\ \/ fg.action.k = "UpdateSearchInput"
            \/ fg.action.k = "ClearSearchInput" /\ app.search_input # "")
            => IF app.selected_index < 2 \/ app.selected_index >= Len(app'.items)
               THEN /\ app'.selected_index = Min(2, Len(app'.items) - 1)
                    /\ app'.list_offset = 0
               ELSE /\ app'.selected_index = app.selected_index
                    /\ app'.list_offset = app.list_offset ]_vars

\* C21: cancelling the overlay (the CancelSearch action applied) sets items to the
\* unfiltered buffer, empties the query and clears search_mode and the committed
\* flag; committing it (CommitSearch applied) leaves items and the query as they
\* are, clears search_mode and sets the committed flag.
C21_OverlayTransitions ==
    [][ FgApplySync =>
            /\ fg.action.k = "CancelSearch" =>
                   /\ app'.items = app.unfiltered_items
                   /\ app'.search_input = ""
                   /\ ~app'.search_mode
                   /\ ~app'.has_committed_filter
            /\ fg.action.k = "CommitSearch" =>
                   /\ app'.items = app.items
                   /\ app'.search_input = app.search_input
                   /\ ~app'.search_mode
                   /\ app'.has_committed_filter ]_vars

\* the query "t" has been committed over the runs r2 and r1: the overlay is closed
\* and the filtered rows stay
C21_Witness ==
    /\ ~app.search_mode /\ app.has_committed_filter /\ fg.pc = "idle"
    /\ app.view = RunsV
    /\ app.search_input = "t"
    /\ Len(app.unfiltered_items) = 4
    /\ app.items = << "HEADER", "SEPARATOR", RunRow(Run1) >>

(***************************************************************************)
(* Column layout (spec 4.4).  The widths are listed by priority: RUN ID,   *)
(* PIPELINE, DURATION, STATUS, START TIME.                                 *)
(***************************************************************************)
\* C22: the min_width of the five columns sum to 73; calculate_widths with
\* available_width 73 + 4 returns every column at its min_width, none hidden
\* (width 0); with available_width 73 + 4 - 1 it returns START TIME, the column
\* of lowest priority, hidden and the other four at their min_width.
C22_LayoutBoundary ==
    LET columns == sort_by_priority(get_ordered_columns)
        n == Len(columns)
        w == last.ret.widths
    IN  /\ Sum([i \in 1..n |-> columns[i].min_width]) = 73
        /\ (last.pc = "done" /\ last.available_width = 73 + 4) =>
               /\ last.ret.outcome = "ok"
               /\ \A i \in 1..n : w[i] = columns[i].min_width /\ w[i] > 0
        /\ (last.pc = "done" /\ last.available_width = 73 + 4 - 1) =>
               /\ last.ret.outcome = "ok"
               /\ \A i \in 1..n :
                      w[i] = IF columns[i].name = "START TIME" THEN 0
                             ELSE columns[i].min_width
               /\ \A i \in 1..n :
                      columns[i].name = "START TIME" =>
                          \A j \in 1..n : columns[j].priority <= columns[i].priority

\* the call with available_width 76 has returned: START TIME is hidden
C22_Witness ==
    /\ last.pc = "done" /\ last.available_width = 76
    /\ last.ret.widths = << 36, 10, 8, 7, 0 >>

C24_SurplusDistribution ==
    (last.pc = "done" /\ last.available_width - 4 > 73) =>
        LET columns == sort_by_priority(get_ordered_columns)
            n == Len(columns)
            w == last.ret.widths
            surplus == last.available_width - 4 - 73
            wanted == Sum([i \in 1..n |-> columns[i].width - columns[i].min_width])
        IN  /\ last.ret.outcome = "ok"
            /\ \A i \in 1..n : w[i] > 0 /\ w[i] >= columns[i].min_width
            /\ \A i, j \in 1..n :
                   (w[i] > columns[i].min_width
                        /\ columns[j].priority < columns[i].priority)
                       => w[j] >= columns[j].width
            /\ surplus <= wanted =>
                   /\ Sum(w) = 73 + surplus
                   /\ \A i \in 1..n : w[i] <= columns[i].width
            /\ surplus > wanted =>
                   LET e == (surplus - wanted) \div n
                   IN  \A i \in 1..n : w[i] = columns[i].width + e

\* available_width 130 leaves a surplus of 53: 48 bring every column to its
\* display width and the 5 left over give each column one more
C24_Witness ==
    /\ last.pc = "done" /\ last.available_width = 130
    /\ last.ret.widths = << 37, 31, 16, 16, 26 >>

(***************************************************************************)
(* Navigation state (spec 3, 4.1).                                         *)
(***************************************************************************)
\* C25: in every reachable state every entry of the view-state cache is keyed by
\* Runs, Contexts, Pipelines or PipelineRuns(name): none is keyed by Default or by
\* a Run(id).
C25_CacheKeys ==
    \A key \in DOMAIN app.view_state_cache :
        key.t \in {"Runs", "Contexts", "Pipelines", "PipelineRuns"}

\* a run detail view has been entered and left again, back in the run list, and
\* the cache holds entries
C25_Witness ==
    /\ app.view = RunsV /\ fg.pc = "idle"
    /\ IsSome(app.run_view)
    /\ RunsV \in DOMAIN app.view_state_cache

\* C26: in every reachable state whose current view is not Run(_), no RunView
\* instance is retained (run_view is None): the instance created on entering
\* Run(id) is discarded when the view is left.
C26_RunViewDiscardedOnLeave ==
    app.view.t # "Run" => app.run_view = None

\* C27: navigate_back at Default with an empty history returns Ok(false) and
\* leaves the application state (view, history, cache, items, selection, search
\* state) as it is; in every other state the view becomes the popped top of the
\* history, or Default when the history was empty, and navigate_back returns
\* Ok(true), at once or when the fetch of restore_state has answered.
C27_NavigateBack ==
    [][ /\ FgApplyNavigateBack =>
               IF app.view = DefaultView /\ app.view_history = << >>
               THEN last'.ret = "Ok(false)" /\ app' = app
               ELSE /\ app'.view = IF app.view_history # << >>
                                   THEN app.view_history[Len(app.view_history)]
                                   ELSE DefaultView
                    /\ last'.ret \in {"-", "Ok(true)"}
                    /\ last'.ret = "-" <=> fg'.pc = "fetch"
        /\ \A resp \in AllResponses :
               (FgFetchDone(resp) /\ fg.action.k = "NavigateBack")
                   => last'.ret = "Ok(true)" /\ app'.view = app.view ]_vars

\* C28: the poll of a tick does what fits the view snapshotted at the tick
\* (bg.view), whatever the view is by then: for Default and Contexts it ends
\* without a fetch and without a state change; for Runs and PipelineRuns(p) it
\* goes on to one run-list fetch, with the pipeline filter of that view (p, none
\* for Runs); for Run(id) to one run-detail fetch for id; for Pipelines to one
\* pipeline-list fetch; and the answer of the fetch ends the poll.
C28_PollDispatch ==
    [][ /\ BgPollBegin =>
               CASE bg.view.t \in {"Default", "Contexts"} ->
                        bg'.pc = "tick" /\ app' = app
                 [] bg.view.t \in {"Runs", "PipelineRuns"} ->
                        bg'.pc = "vars" /\ bg'.poller = "RunsView"
                 [] bg.view.t = "Run" ->
                        /\ bg'.pc = "fetch" /\ bg'.poller = "RunPoller"
                        /\ bg'.arg = bg.view.p
                 [] bg.view.t = "Pipelines" ->
                        bg'.pc = "fetch" /\ bg'.poller = "PipelinesView"
        /\ BgRunsVars =>
               /\ bg'.pc = "fetch"
               /\ bg'.arg = IF bg.view.t = "PipelineRuns" THEN bg.view.p ELSE ""
        /\ (\E resp \in AllResponses : BgMerge(resp)) => bg'.pc = "tick" ]_vars

C30_DrillDownGuard ==
    [][ /\ (FgApplyViewDetails /\ fg'.pc = "fetch") =>
               /\ IsRunsLike(app.view)
               /\ app.selected_index >= 2 /\ app.selected_index < Len(app.items)
               /\ fg'.arg = FirstToken(app.items[app.selected_index + 1])
        /\ (app'.view.t = "Run" /\ app'.view # app.view) =>
               /\ fg.pc = "fetch" /\ fg.action.k = "ViewDetails"
               /\ app'.view = RunV(fg.arg)
        /\ (app'.view.t = "PipelineRuns" /\ app'.view # app.view) =>
               /\ FgApplyViewPipelineRuns
               /\ app.view = PipelinesV
               /\ app.selected_index >= 2 /\ app.selected_index < Len(app.items)
               /\ app'.view.p =
                      Trim(Take(Trim(app.items[app.selected_index + 1]), 30)) ]_vars

\* Enter was pressed on the second run of the list (index 3); before the action
\* is applied the poller has merged a list of one run, so index 3 selects no row
C30_Witness ==
    /\ fg.pc = "apply" /\ fg.action.k = "ViewDetails"
    /\ app.view = RunsV
    /\ app.selected_index = 3
    /\ Len(app.items) = 3
    /\ lock = "none"


\* C36: the i-th width returned by calculate_widths is the width the layout
\* computed for the i-th column the renderer zips it with: every rendered column
\* has the width computed for that same column, a column is left out of the
\* header exactly when the layout gave that same column width 0, and when the
\* layout hides two columns the two left out are START TIME and STATUS.
C36_WidthColumnAlignment ==
    (last.pc = "done" /\ last.ret.outcome = "ok") =>
        LET sorted == sort_by_priority(get_ordered_columns)
            w == last.ret.widths
            rendered == draw_header_columns(w)
            shown == { rendered[i].name : i \in 1..Len(rendered) }
            hidden == { j \in 1..Len(sorted) : w[j] = 0 }
        IN  /\ \A i \in 1..Len(rendered) :
                   \E j \in 1..Len(sorted) :
                       /\ sorted[j].name = rendered[i].name
                       /\ rendered[i].width = w[j]
            /\ \A j \in 1..Len(sorted) :
                   sorted[j].name \notin shown <=> w[j] = 0
            /\ Cardinality(hidden) = 2 =>
                   { sorted[j].name : j \in 1..Len(sorted) } \ shown
                       = {"START TIME", "STATUS"}

\* C37: for every available_width >= 4 the widths returned sum to at most
\* available_width - 4 and every width that is not 0 is at least the min_width
\* of its column; for 73 < available_width - 4 <= 121 the sum is
\* available_width - 4 exactly.
C37_LayoutFits ==
    (last.pc = "done" /\ last.available_width >= 4) =>
        LET columns == sort_by_priority(get_ordered_columns)
            w == last.ret.widths
            available == last.available_width - 4
        IN  /\ last.ret.outcome = "ok"
            /\ Len(w) = Len(columns)
            /\ Sum(w) <= available
            /\ \A i \in 1..Len(w) : w[i] # 0 => w[i] >= columns[i].min_width
            /\ (73 < available /\ available <= 121) => Sum(w) = available

\* available_width 100 leaves 96 for the columns: RUN ID 36, PIPELINE 30 and
\* DURATION 11 take the surplus of 23, 96 in all
C37_Witness ==
    /\ last.pc = "done" /\ last.available_width = 100
    /\ last.ret.widths = << 36, 30, 11, 7, 12 >>

(***************************************************************************)
(* Polling and selection (spec 4.2, 4.1).                                  *)
(***************************************************************************)
\* C38: a run-list poll whose fetch succeeds with zero runs changes nothing of
\* the application state: store.runs, items, unfiltered_items, the selection and
\* connection_status keep their values (the rows stay, a Failed status stays).
C38_EmptyPollChangesNothing ==
    [][ \A resp \in AllResponses :
            (BgMerge(resp) /\ bg.poller = "RunsView" /\ resp.ok /\ resp.val = << >>)
                => app' = app ]_vars

\* a run-list poll is in flight over a run list that shows runs, after an
\* earlier poll has failed
C38_Witness ==
    /\ bg.pc = "fetch" /\ bg.poller = "RunsView"
    /\ Ok(<< >>) \in PollResponses
    /\ app.view = RunsV
    /\ app.connection_status.t = "Failed"
    /\ Len(app.items) > 2 /\ app.state.runs # << >>

\* C39: from selected_index 2 and list_offset 0, under a constant viewport height
\* of at least 3, every next_item and previous_item leaves, in a list with a data
\* row, 2 <= selected_index <= items.len() - 1 and the selected row inside the
\* viewport (list_offset <= selected_index < list_offset + viewport_height);
\* next_item on the last row and previous_item on row 2 change nothing, and
\* neither changes anything when items is header and separator only.
C39_SelectionBounds ==
    [][ /\ Len(app'.items) > 2 =>
               /\ 2 <= app'.selected_index
               /\ app'.selected_index <= Len(app'.items) - 1
               /\ app'.list_offset <= app'.selected_index
               /\ app'.selected_index < app'.list_offset + last'.viewport_height
        /\ (last'.k = "next_item" /\ app.selected_index = Len(app.items) - 1)
               => app' = app
        /\ (last'.k = "previous_item" /\ app.selected_index = 2) => app' = app
        /\ Len(app.items) <= 2 => app' = app
        /\ last'.viewport_height = last.viewport_height ]_vars

\* in a viewport of height 3 the selection has gone down to the last of four
\* rows and come back up by one: the list is scrolled and the row is visible
C39_Witness ==
    /\ last.k = "previous_item" /\ last.viewport_height = 3
    /\ Len(app.items) = 6
    /\ app.selected_index = 4 /\ app.list_offset > 2

(***************************************************************************)
(* Reachable navigation state (spec 3).                                    *)
(***************************************************************************)
\* C33: in every state reached with the commands runs, pipelines and contexts,
\* the Enter drill-downs and Esc, the history is empty exactly when the current
\* view is Default; a history that is not empty has Default as its bottom entry;
\* no Run(_) is in the history; and the history is at most 3 deep.
C33_NavigationShapes ==
    /\ app.view_history = << >> <=> app.view = DefaultView
    /\ app.view_history # << >> => app.view_history[1] = DefaultView
    /\ \A i \in 1..Len(app.view_history) : app.view_history[i].t # "Run"
    /\ Len(app.view_history) <= 3

\* a run is shown that was reached through the pipeline list and the runs of
\* the pipeline etl: the history is three deep
C33_Witness ==
    /\ app.view.t = "Run" /\ fg.pc = "idle"
    /\ app.view_history = << DefaultView, PipelinesV, PipelineRunsV("etl") >>

\* C34: in every reachable state the view Runs goes with selected_pipeline None
\* and the view PipelineRuns(p) with selected_pipeline Some(p); so the run-list
\* fetch of the foreground (restore_state) and the one the poller prepares while
\* the view is Runs carry no pipeline filter, and those for PipelineRuns(p)
\* carry the filter p.
C34_PipelineFilterConsistency ==
    [][ /\ app'.view = RunsV => app'.state.selected_pipeline = None
        /\ app'.view.t = "PipelineRuns" =>
               app'.state.selected_pipeline = Some(app'.view.p)
        /\ (fg'.pc = "fetch" /\ fg'.action.k # "ViewDetails" /\ IsRunsLike(app'.view)) =>
               RestoreResponses(app') =
                   RunsResponses(IF app'.view = RunsV THEN "" ELSE app'.view.p)
        /\ (BgRunsVars /\ IsRunsLike(app.view)) =>
               bg'.arg = IF app.view = RunsV THEN "" ELSE app.view.p ]_vars

\* the runs of the pipeline etl are shown and the poller fetches them with the
\* filter etl
C34_Witness ==
    /\ app.view = PipelineRunsV("etl")
    /\ app.state.selected_pipeline = Some("etl")
    /\ bg.pc = "fetch" /\ bg.poller = "RunsView" /\ bg.arg = "etl"

\* C35: whenever the current view changes, by an enter or by navigate_back, the
\* search overlay is cleared: afterwards search_mode is false, the query is
\* empty, the committed flag is false and the unfiltered buffer is empty.
C35_SearchClearedOnViewChange ==
    [][ app'.view # app.view =>
            /\ ~app'.search_mode
            /\ app'.search_input = ""
            /\ ~app'.has_committed_filter
            /\ app'.unfiltered_items = << >> ]_vars

\* C32: deadlock freedom.  The data-store lock is only ever held by the task
\* that holds the application lock (the order is application lock, then
\* data-store lock), no task requests the data-store lock while it holds it,
\* no task waits for the application lock while it holds the data-store lock,
\* and the foreground loop and the poller are never both waiting for a lock.
C32_DeadlockFreedom ==
    /\ last.state # "none" => lock = last.state
    /\ \A w \in { << "fg", fg >>, << "bg", bg >> } :
           w[2].todo # << >> =>
               /\ Head(w[2].todo) = "state.lock" =>
                      lock = w[1] /\ last.state # w[1]
               /\ Head(w[2].todo) = "app.lock" =>
                      lock # w[1] /\ last.state # w[1]
    /\ ~(Blocked(fg) /\ Blocked(bg))

\* the poller holds both locks in its merge while the foreground loop waits
\* for the application lock
C32_Witness ==
    /\ lock = "bg" /\ last.state = "bg"
    /\ Blocked(fg) /\ Head(fg.todo) = "app.lock"

\* C31: eventual freshness.  Under weak fairness of the foreground loop and of
\* the poller, with every fetch answered successfully: while the view is a
\* data-backed one (Runs, PipelineRuns(p), Pipelines, Run(id)) and no filter is
\* active, what is displayed eventually equals the answer of a fetch sent after
\* the view was entered, unless the view is left or a filter is set before;
\* and whenever the foreground loop holds the application lock it releases it,
\* so that the poller never waits for it forever.
C31_EventualFreshness ==
    /\ (DataBacked(app.view) /\ ~app.search_mode /\ ~app.has_committed_filter)
           ~> (\/ last.shown
               \/ ~DataBacked(app.view)
               \/ app.search_mode \/ app.has_committed_filter)
    /\ (lock = "fg") ~> (lock = "none")

\* the details of run r1, entered with an answer fetched before the view was
\* entered, have been refreshed by the poller
C31_Witness ==
    /\ app.view = RunV("r1")
    /\ ~app.search_mode /\ ~app.has_committed_filter
    /\ last.k = "live" /\ last.shown
=============================================================================
